---- MODULE Spec2Model ----
(***************************************************************************)
(* Versioned configuration store of aws_config (src/aws_config/s3.py).     *)
(*                                                                         *)
(* The store keeps one configuration blob per parameter name in an S3      *)
(* bucket.  In a bucket with versioning enabled it writes one key and lets *)
(* S3 keep the history; in a bucket without versioning it writes a         *)
(* numbered object per deployment plus a "latest" pointer object.          *)
(*                                                                         *)
(* The bucket is modelled as a map from key to the history of that key,    *)
(* newest entry first.  A key is a sequence of path components below the   *)
(* config directory, a component is the sequence of its "-" separated      *)
(* segments, and a segment is a sequence of characters.                    *)
(***************************************************************************)
EXTENDS Integers, Sequences, FiniteSets, TLC

VARIABLES
    status,      \* versioning status of the bucket (get_bucket_versioning)
    bucket,      \* key -> history of the key, newest first
    vidCounter,  \* number of version ids the backend has handed out
    log,         \* the calls made so far, with their results
    writers,     \* the deploy_config calls in progress, each at its next request
    ssm          \* the SSM parameter that config.py deploys next to the bucket

vars == <<status, bucket, vidCounter, log, writers, ssm>>

\* Longest sequence of calls explored.
MaxOps == 4

----------------------------------------------------------------------------
(* constants.py *)

S3_NOT_ENABLED == "NotEnabled"
S3_ENABLED == "Enabled"
S3_SUSPENDED == "Suspended"

S3BucketVersionStatus == {S3_NOT_ENABLED, S3_ENABLED, S3_SUSPENDED}

ZFILL == 6

CONFIG_VERSION == "config_version"
CONFIG_SHA256 == "config_sha256"

----------------------------------------------------------------------------
(* Text of version numbers: str(), str.zfill(), int(). *)

DigitChars == <<"0", "1", "2", "3", "4", "5", "6", "7", "8", "9">>

RECURSIVE Str(_)
\* str(n) of a non-negative integer, as its sequence of characters
Str(n) ==
    IF n < 10 THEN <<DigitChars[n + 1]>>
    ELSE Str(n \div 10) \o <<DigitChars[(n % 10) + 1]>>

RECURSIVE ZFill(_, _)
\* s.zfill(width): pad with "0" on the left, never truncate
ZFill(s, width) ==
    IF Len(s) >= width THEN s ELSE ZFill(<<"0">> \o s, width)

IsDigits(s) ==
    /\ Len(s) > 0
    /\ \A i \in 1..Len(s) : \E d \in 1..10 : DigitChars[d] = s[i]

DigitVal(c) == (CHOOSE d \in 1..10 : DigitChars[d] = c) - 1

RECURSIVE IntOf(_)
\* int(s) of a sequence of decimal digits
IntOf(s) ==
    IF Len(s) = 0 THEN 0
    ELSE 10 * IntOf(SubSeq(s, 1, Len(s) - 1)) + DigitVal(s[Len(s)])

----------------------------------------------------------------------------
(* Configuration data: a Python dict, here the sequence of its (key, value)
   pairs in insertion order, with pairwise distinct keys. *)

ConfigKeys == {"a", "b"}
ConfigValues == {"x"}

Pairs == ConfigKeys \X ConfigValues

ConfigDatas ==
    {<<>>}
    \cup {<<p>> : p \in Pairs}
    \cup {<<p, q>> : <<p, q>> \in {pq \in Pairs \X Pairs : pq[1][1] # pq[2][1]}}

\* dict == dict: same keys with the same values, whatever the order
DictEq(d1, d2) ==
    {d1[i] : i \in 1..Len(d1)} = {d2[i] : i \in 1..Len(d2)}

\* Variant: only the first member is serialized.
JsonMembersFirstOnly(d) ==
    IF Len(d) = 0 THEN <<>> ELSE <<d[1][1], ":", d[1][2]>>

RECURSIVE JsonMembers(_)
JsonMembers(d) ==
    IF Len(d) = 0 THEN <<>>
    ELSE <<d[1][1], ":", d[1][2]>> \o
         (IF Len(d) = 1 THEN <<>> ELSE <<",">> \o JsonMembers(Tail(d)))

\* json.dumps(config_data, indent=4): the members in insertion order
JsonDumps(d) == <<"{">> \o JsonMembers(d) \o <<"}">>

RECURSIVE ParseMembers(_)
ParseMembers(toks) ==
    IF Len(toks) < 3 THEN <<>>
    ELSE <<(<<toks[1], toks[3]>>)>> \o
         ParseMembers(SubSeq(toks, 5, Len(toks)))

\* json_loads(text): the dict of the members, in the order of the text
JsonLoads(text) == ParseMembers(SubSeq(text, 2, Len(text) - 1))

KeyOrder == <<"a", "b">>

RECURSIVE SortedMembers(_, _)
SortedMembers(d, i) ==
    IF i > Len(KeyOrder) THEN <<>>
    ELSE SelectSeq(d, LAMBDA p : p[1] = KeyOrder[i]) \o SortedMembers(d, i + 1)

\* sha256_of_config_data(config_data): digest of the key-sorted serialization
Sha256OfConfigData(d) == <<"sha256">> \o JsonDumps(SortedMembers(d, 1))

----------------------------------------------------------------------------
(* The bucket, as s3pathlib and S3 present it to s3.py. *)

\* The parameter name, as the sequence of its "-" separated segments.
ParameterName == << <<"p">> >>

LatestSeg == <<"l", "a", "t", "e", "s", "t">>

NullVid == <<"n", "u", "l", "l">>

\* The version id the backend hands out after n earlier ones.
NewVid(n) == <<"v">> \o Str(n + 1)

NoMeta == {}

MetaGet(meta, k) == (CHOOSE p \in {q \in meta : q[1] = k} : TRUE)[2]

Parent(key) == SubSeq(key, 1, Len(key) - 1)

FName(key) == key[Len(key)]

IsUnder(key, dir) ==
    /\ Len(key) > Len(dir)
    /\ SubSeq(key, 1, Len(dir)) = dir

EmptyBucket == [k \in {} |-> <<>>]

ContentEntry(vid, body, meta) ==
    [vid |-> vid, marker |-> FALSE, body |-> body, meta |-> meta]

MarkerEntry(vid) ==
    [vid |-> vid, marker |-> TRUE, body |-> <<>>, meta |-> NoMeta]

History(b, key) == IF key \in DOMAIN b THEN b[key] ELSE <<>>

SetHistory(b, key, h) ==
    [k \in DOMAIN b \cup {key} |-> IF k = key THEN h ELSE b[k]]

DropKeys(b, keys) == [k \in DOMAIN b \ keys |-> b[k]]

\* Variant: a key whose newest entry is a delete marker counts as existing.
S3ExistsIgnoringMarker(b, key) == key \in DOMAIN b

\* S3Path.exists(): head_object answers 404 for a missing key and for a key
\* whose newest entry is a delete marker
S3Exists(b, key) == key \in DOMAIN b /\ ~b[key][1].marker

\* S3Path.read_text(), S3Path.metadata, S3Path.version_id of an existing key
ReadText(b, key) == b[key][1].body
Metadata(b, key) == b[key][1].meta
VersionId(b, key) == b[key][1].vid

\* S3Path.iter_objects() of a directory: the current objects below it
IterObjects(b, dir) == {k \in DOMAIN b : IsUnder(k, dir) /\ ~b[k][1].marker}

\* S3Path.list_object_versions(limit=n).all(): newest first
ListObjectVersions(b, key, limit) ==
    LET h == History(b, key)
    IN  SubSeq(h, 1, IF Len(h) < limit THEN Len(h) ELSE limit)

\* S3Path.write_text(): put_object
WriteText(b, st, key, body, meta, n) ==
    IF st = S3_ENABLED
    THEN SetHistory(b, key, <<ContentEntry(NewVid(n), body, meta)>> \o History(b, key))
    ELSE SetHistory(b, key, <<ContentEntry(NullVid, body, meta)>>)

\* Variant: an existing destination is left as it is (overwrite=False).
CopyToIfAbsent(b, st, src, dst, n) ==
    IF dst \in DOMAIN b THEN b
    ELSE WriteText(b, st, dst, ReadText(b, src), Metadata(b, src), n)

\* S3Path.copy_to(overwrite=True): copy_object keeps body and metadata
CopyTo(b, st, src, dst, n) ==
    WriteText(b, st, dst, ReadText(b, src), Metadata(b, src), n)

\* Variant: in a versioned bucket the marker replaces the history of the key.
DeleteFileDropsHistory(b, st, key, n) ==
    IF st = S3_ENABLED
    THEN SetHistory(b, key, <<MarkerEntry(NewVid(n))>>)
    ELSE DropKeys(b, {key})

\* S3Path.delete() of a file: delete_object; a versioned bucket gets a marker
DeleteFile(b, st, key, n) ==
    IF st = S3_ENABLED
    THEN SetHistory(b, key, <<MarkerEntry(NewVid(n))>> \o History(b, key))
    ELSE DropKeys(b, {key})

\* Variant: a hard delete removes the newest entry only.
HardDeleteFileNewestOnly(b, key) ==
    IF Len(History(b, key)) <= 1 THEN DropKeys(b, {key})
    ELSE SetHistory(b, key, Tail(History(b, key)))

\* S3Path.delete(is_hard_delete=True) of a file: every version and marker
HardDeleteFile(b, key) == DropKeys(b, {key})

\* Variant: the directory is matched as a prefix of the name, without the
\* closing "/".
DeleteDirByNamePrefix(b, dir) ==
    DropKeys(b, {k \in DOMAIN b :
                    /\ Len(k) > Len(dir)
                    /\ SubSeq(k, 1, Len(dir) - 1) = SubSeq(dir, 1, Len(dir) - 1)
                    /\ Len(k[Len(dir)]) >= Len(dir[Len(dir)])
                    /\ SubSeq(k[Len(dir)], 1, Len(dir[Len(dir)])) = dir[Len(dir)]})

\* S3Path.delete() of a directory in a bucket without versioning
DeleteDir(b, dir) == DropKeys(b, {k \in DOMAIN b : IsUnder(k, dir)})

----------------------------------------------------------------------------
(* Results of the calls and the backend requests they make. *)

Result(kind, data, version, key, number) ==
    [kind |-> kind, data |-> data, version |-> version, key |-> key,
     number |-> number]

SuspendedError == Result("S3BucketVersionSuspendedError", <<>>, <<>>, <<>>, 0)
ObjectNotExist == Result("S3ObjectNotExist", <<>>, <<>>, <<>>, 0)
IndexError == Result("IndexError", <<>>, <<>>, <<>>, 0)
NoneResult == Result("None", <<>>, <<>>, <<>>, 0)
TrueResult == Result("True", <<>>, <<>>, <<>>, 0)
ConfigResult(data, version) == Result("config", data, version, <<>>, 0)
S3ObjectResult(key, version_id) == Result("S3Object", <<>>, version_id, key, 0)
VersionIdResult(version_id) == Result("version_id", <<>>, version_id, <<>>, 0)
IntResult(n) == Result("int", <<>>, <<>>, <<>>, n)

Outcome(b, n, res, calls) ==
    [bucket |-> b, vidCounter |-> n, res |-> res, calls |-> calls]

MutatingCalls == {"put_object", "copy_object", "delete_object", "delete_objects"}

----------------------------------------------------------------------------
(* S3Parameter *)

\* Variant: the suspended status is not rejected.
IsSuspendedNever(st) == FALSE

\* _ensure_bucket_versioning_is_not_suspended raises
IsSuspended(st) == st = S3_SUSPENDED

\* Variant: the directory layout is used in every mode.
S3PathLatestInDirectory(st, name) == <<name, name \o <<LatestSeg>>>>

\* the s3path_latest chosen by S3Parameter.new
S3PathLatest(st, name) ==
    IF st = S3_ENABLED THEN <<name>> ELSE <<name, name \o <<LatestSeg>>>>

\* S3Parameter.new
S3ParameterNew(st, name) ==
    [raised |-> IsSuspended(st),
     parameter_name |-> name,
     version_status |-> st,
     version_enabled |-> (st = S3_ENABLED),
     s3path_latest |-> S3PathLatest(st, name)]

\* Variant: the version is the version id of the object in every mode.
ReadLatestVersionIdAlways(b, param) ==
    IF ~S3Exists(b, param.s3path_latest) THEN ObjectNotExist
    ELSE ConfigResult(JsonLoads(ReadText(b, param.s3path_latest)),
                      VersionId(b, param.s3path_latest))

\* S3Parameter.read_latest
ReadLatest(b, param) ==
    IF ~S3Exists(b, param.s3path_latest) THEN ObjectNotExist
    ELSE ConfigResult(
            JsonLoads(ReadText(b, param.s3path_latest)),
            IF param.version_enabled
            THEN VersionId(b, param.s3path_latest)
            ELSE MetaGet(Metadata(b, param.s3path_latest), CONFIG_VERSION))

\* s3path.fname.split("-")[-1]
LastSegment(key) == FName(key)[Len(FName(key))]

\* Variant: the smallest number is taken.
SetMin(S) == CHOOSE x \in S : \A y \in S : x <= y

SetMax(S) == CHOOSE x \in S : \A y \in S : y <= x

\* Variant: a name that does not end in a number counts as version 0.
VersionsInCountingAll(objects) ==
    {IF IsDigits(LastSegment(o)) THEN IntOf(LastSegment(o)) ELSE 0 : o \in objects}

\* the versions collected by the scan: int(s3path.fname.split("-")[-1]) of
\* every object, those for which int() raises being passed over
VersionsIn(objects) ==
    {IntOf(LastSegment(k)) : k \in {o \in objects : IsDigits(LastSegment(o))}}

\* Variant: without the pointer no version is found (no scan of the directory).
GetLatestConfigVersionWhenVersionNotEnabledNoScan(b, param) ==
    IF S3Exists(b, param.s3path_latest)
    THEN IntResult(IntOf(MetaGet(Metadata(b, param.s3path_latest), CONFIG_VERSION)))
    ELSE NoneResult

\* S3Parameter.get_latest_config_version_when_version_not_enabled
GetLatestConfigVersionWhenVersionNotEnabled(b, param) ==
    IF S3Exists(b, param.s3path_latest)
    THEN IntResult(IntOf(MetaGet(Metadata(b, param.s3path_latest), CONFIG_VERSION)))
    ELSE LET versions == VersionsIn(IterObjects(b, Parent(param.s3path_latest)))
         IN  IF versions # {} THEN IntResult(SetMax(versions)) ELSE NoneResult

GetLatestNotEnabledCalls(b, param) ==
    IF S3Exists(b, param.s3path_latest)
    THEN <<"head_object">>
    ELSE <<"head_object", "list_objects_v2">>

\* Variant: the newest entry is returned even when it is a delete marker.
GetLatestConfigVersionWhenVersionIsEnabledNoSkip(b, param) ==
    LET s3path_list == ListObjectVersions(b, param.s3path_latest, 2)
    IN  IF Len(s3path_list) = 0 THEN NoneResult
        ELSE VersionIdResult(s3path_list[1].vid)

\* S3Parameter.get_latest_config_version_when_version_is_enabled
GetLatestConfigVersionWhenVersionIsEnabled(b, param) ==
    LET s3path_list == ListObjectVersions(b, param.s3path_latest, 2)
    IN  IF Len(s3path_list) = 0 THEN NoneResult
        ELSE IF s3path_list[1].marker
             THEN IF Len(s3path_list) < 2 THEN IndexError
                  ELSE VersionIdResult(s3path_list[2].vid)
             ELSE VersionIdResult(s3path_list[1].vid)

\* the versioned path built by deploy_latest_when_version_not_enabled
S3PathVersioned(param, config_version) ==
    Parent(param.s3path_latest) \o
    << param.parameter_name \o <<ZFill(config_version, ZFILL)>> >>

\* Variant: the metadata carries the version as padded for the key.
DeployLatestWhenVersionNotEnabledPaddedMeta(b, param, config_data, config_version, n) ==
    LET s3path_versioned == S3PathVersioned(param, config_version)
        written ==
            WriteText(b, param.version_status, s3path_versioned,
                      JsonDumps(config_data),
                      {<<CONFIG_VERSION, ZFill(config_version, ZFILL)>>,
                       <<CONFIG_SHA256, Sha256OfConfigData(config_data)>>},
                      n)
    IN  CopyTo(written, param.version_status, s3path_versioned,
               param.s3path_latest, n)

\* Variant: the versioned object is written but not copied to the pointer.
DeployLatestWhenVersionNotEnabledNoCopy(b, param, config_data, config_version, n) ==
    WriteText(b, param.version_status, S3PathVersioned(param, config_version),
              JsonDumps(config_data),
              {<<CONFIG_VERSION, config_version>>,
               <<CONFIG_SHA256, Sha256OfConfigData(config_data)>>},
              n)

\* S3Parameter.deploy_latest_when_version_not_enabled: the bucket afterwards
DeployLatestWhenVersionNotEnabled(b, param, config_data, config_version, n) ==
    LET s3path_versioned == S3PathVersioned(param, config_version)
        written ==
            WriteText(b, param.version_status, s3path_versioned,
                      JsonDumps(config_data),
                      {<<CONFIG_VERSION, config_version>>,
                       <<CONFIG_SHA256, Sha256OfConfigData(config_data)>>},
                      n)
    IN  CopyTo(written, param.version_status, s3path_versioned,
               param.s3path_latest, n)

\* Variant: the earlier versions of the key are removed before the write.
DeployLatestWhenVersionIsEnabledReplacing(b, param, config_data, n) ==
    WriteText(HardDeleteFile(b, param.s3path_latest), param.version_status,
              param.s3path_latest, JsonDumps(config_data),
              {<<CONFIG_SHA256, Sha256OfConfigData(config_data)>>},
              n)

\* S3Parameter.deploy_latest_when_version_is_enabled: the bucket afterwards
DeployLatestWhenVersionIsEnabled(b, param, config_data, n) ==
    WriteText(b, param.version_status, param.s3path_latest,
              JsonDumps(config_data),
              {<<CONFIG_SHA256, Sha256OfConfigData(config_data)>>},
              n)

----------------------------------------------------------------------------
(* read_config, deploy_config, delete_config *)

\* read_config
ReadConfig(st, b, n, name) ==
    LET param == S3ParameterNew(st, name)
    IN  IF param.raised
        THEN Outcome(b, n, SuspendedError, <<"get_bucket_versioning">>)
        ELSE Outcome(b, n, ReadLatest(b, param),
                     <<"get_bucket_versioning", "get_object">>)

\* Variant: the change check compares the members in order.
ConfigUnchangedInOrder(b, param, config_data) ==
    /\ S3Exists(b, param.s3path_latest)
    /\ ReadLatest(b, param).data = config_data

\* Variant: without a pointer the newest versioned object is compared.
ConfigUnchangedOrNewestVersion(b, param, config_data) ==
    \/ /\ S3Exists(b, param.s3path_latest)
       /\ DictEq(ReadLatest(b, param).data, config_data)
    \/ /\ ~param.version_enabled
       /\ ~S3Exists(b, param.s3path_latest)
       /\ LET latest == GetLatestConfigVersionWhenVersionNotEnabled(b, param)
          IN  /\ latest.kind = "int"
              /\ DictEq(JsonLoads(ReadText(b, S3PathVersioned(
                                               param, Str(latest.number)))),
                        config_data)

\* deploy_config: already_exists and existing_config_data == config_data
ConfigUnchanged(b, param, config_data) ==
    /\ S3Exists(b, param.s3path_latest)
    /\ DictEq(ReadLatest(b, param).data, config_data)

\* Variant: the numbering restarts with every write.
NewVersionFromOne(latest_version) == 1

\* Variant: the new version skips a number.
NewVersionSkipsOne(latest_version) ==
    IF latest_version.kind = "None" THEN 1 ELSE latest_version.number + 2

\* Variant: the new version repeats the latest one.
NewVersionNoIncrement(latest_version) ==
    IF latest_version.kind = "None" THEN 1 ELSE latest_version.number

\* deploy_config: new_version from latest_version
NewVersion(latest_version) ==
    IF latest_version.kind = "None" THEN 1 ELSE latest_version.number + 1

\* deploy_config
DeployConfig(st, b, n, name, config_data) ==
    LET param == S3ParameterNew(st, name)
        already_exists == S3Exists(b, param.s3path_latest)
        checks == <<"get_bucket_versioning", "head_object">> \o
                  (IF already_exists THEN <<"get_object">> ELSE <<>>)
    IN  IF param.raised
        THEN Outcome(b, n, SuspendedError, <<"get_bucket_versioning">>)
        ELSE IF ConfigUnchanged(b, param, config_data)
        THEN Outcome(b, n, NoneResult, checks)
        ELSE IF ~param.version_enabled
        THEN LET latest_version ==
                     GetLatestConfigVersionWhenVersionNotEnabled(b, param)
                 config_version == Str(NewVersion(latest_version))
             IN  Outcome(
                     DeployLatestWhenVersionNotEnabled(
                         b, param, config_data, config_version, n),
                     n,
                     S3ObjectResult(S3PathVersioned(param, config_version), <<>>),
                     checks \o GetLatestNotEnabledCalls(b, param)
                            \o <<"put_object", "copy_object">>)
        ELSE Outcome(
                 DeployLatestWhenVersionIsEnabled(b, param, config_data, n),
                 n + 1,
                 S3ObjectResult(param.s3path_latest, NewVid(n)),
                 checks \o <<"put_object">>)

\* Variant: without versioning, a soft delete removes the whole directory.
DeleteConfigBucketWholeDir(b, param, include_history, n) ==
    IF ~param.version_enabled
    THEN DeleteDir(b, Parent(param.s3path_latest))
    ELSE IF include_history
         THEN HardDeleteFile(b, param.s3path_latest)
         ELSE DeleteFile(b, param.version_status, param.s3path_latest, n)

\* Variant: without versioning, a hard delete removes the pointer only.
DeleteConfigBucketKeepsVersions(b, param, include_history, n) ==
    IF ~param.version_enabled
    THEN DeleteFile(b, param.version_status, param.s3path_latest, n)
    ELSE IF include_history
         THEN HardDeleteFile(b, param.s3path_latest)
         ELSE DeleteFile(b, param.version_status, param.s3path_latest, n)

\* delete_config: the bucket after the deletion
DeleteConfigBucket(b, param, include_history, n) ==
    IF ~param.version_enabled
    THEN IF include_history
         THEN DeleteDir(b, Parent(param.s3path_latest))
         ELSE DeleteFile(b, param.version_status, param.s3path_latest, n)
    ELSE IF include_history
         THEN HardDeleteFile(b, param.s3path_latest)
         ELSE DeleteFile(b, param.version_status, param.s3path_latest, n)

DeleteConfigCalls(param, include_history) ==
    IF ~param.version_enabled
    THEN IF include_history THEN <<"list_objects_v2", "delete_objects">>
         ELSE <<"delete_object">>
    ELSE IF include_history THEN <<"list_object_versions", "delete_objects">>
         ELSE <<"delete_object">>

\* delete_config
DeleteConfig(st, b, n, name, include_history) ==
    LET param == S3ParameterNew(st, name)
    IN  IF param.raised
        THEN Outcome(b, n, SuspendedError, <<"get_bucket_versioning">>)
        ELSE Outcome(
                 DeleteConfigBucket(b, param, include_history, n),
                 IF param.version_enabled /\ ~include_history THEN n + 1 ELSE n,
                 TrueResult,
                 <<"get_bucket_versioning">> \o
                 DeleteConfigCalls(param, include_history))

\* S3Parameter.new followed by the get_latest_config_version method of the mode
ResolveLatestVersion(st, b, n, name) ==
    LET param == S3ParameterNew(st, name)
    IN  IF param.raised
        THEN Outcome(b, n, SuspendedError, <<"get_bucket_versioning">>)
        ELSE IF param.version_enabled
        THEN Outcome(b, n, GetLatestConfigVersionWhenVersionIsEnabled(b, param),
                     <<"get_bucket_versioning", "list_object_versions">>)
        ELSE Outcome(b, n, GetLatestConfigVersionWhenVersionNotEnabled(b, param),
                     <<"get_bucket_versioning">> \o
                     GetLatestNotEnabledCalls(b, param))

----------------------------------------------------------------------------
(* The state machine: one caller issuing calls on one bucket. *)

\* A bucket whose versioning was suspended after an object had been stored.
\* No deploy_config call is in progress.
NoWriters == <<>>

\* The SSM parameter does not exist (get_parameter answers None).
NoParameter == [exists |-> FALSE, value |-> <<>>, version |-> 0]

SuspendedBucketWithObject ==
    SetHistory(EmptyBucket, <<ParameterName>>,
               <<ContentEntry(NewVid(0), JsonDumps(<<>>),
                              {<<CONFIG_SHA256, Sha256OfConfigData(<<>>)>>})>>)

Init ==
    /\ status \in S3BucketVersionStatus
    /\ bucket \in IF status = S3_SUSPENDED
                  THEN {EmptyBucket, SuspendedBucketWithObject}
                  ELSE {EmptyBucket}
    /\ vidCounter = Cardinality(DOMAIN bucket)
    /\ log = <<>>
    /\ writers = NoWriters
    /\ ssm = NoParameter

Call(op, config_data, include_history, out) ==
    /\ Len(log) < MaxOps
    /\ bucket' = out.bucket
    /\ vidCounter' = out.vidCounter
    /\ log' = Append(log, [op |-> op, config_data |-> config_data,
                           include_history |-> include_history,
                           res |-> out.res, calls |-> out.calls])
    /\ UNCHANGED <<ssm, status, writers>>

DoReadConfig ==
    Call("read_config", <<>>, FALSE,
         ReadConfig(status, bucket, vidCounter, ParameterName))

DoDeployConfig ==
    \E config_data \in ConfigDatas :
        Call("deploy_config", config_data, FALSE,
             DeployConfig(status, bucket, vidCounter, ParameterName, config_data))

DoDeleteConfig ==
    \E include_history \in BOOLEAN :
        Call("delete_config", <<>>, include_history,
             DeleteConfig(status, bucket, vidCounter, ParameterName,
                          include_history))

DoResolveLatestVersion ==
    Call("resolve_latest_version", <<>>, FALSE,
         ResolveLatestVersion(status, bucket, vidCounter, ParameterName))

Next ==
    \/ DoReadConfig
    \/ DoDeployConfig
    \/ DoDeleteConfig
    \/ DoResolveLatestVersion

Spec == Init /\ [][Next]_vars

----------------------------------------------------------------------------
(* read_config on a backend whose requests may fail.  A botocore ClientError
   prints as "An error occurred (<code>) when calling the <operation>
   operation: ..."; a connection error is not a ClientError. *)

NoFault == "none"

ClientErrorCodes == {"AccessDenied", "SlowDown"}

BackendFaults == ClientErrorCodes \cup {"EndpointConnectionError"}

FaultyRequests == {"get_bucket_versioning", "get_object"}

\* str(e)
ErrorText(code, operation) ==
    <<"An error occurred (", code, ") when calling the ", operation, " operation">>

\* word in text
Contains(text, word) == \E i \in 1..Len(text) : text[i] = word

\* what the get_object of s3path_latest.read_text() raises, if anything
GetObjectError(b, key, fault) ==
    IF fault # NoFault
    THEN [raised |-> TRUE, is_client_error |-> fault \in ClientErrorCodes,
          code |-> fault, text |-> ErrorText(fault, "GetObject")]
    ELSE IF ~S3Exists(b, key)
    THEN [raised |-> TRUE, is_client_error |-> TRUE,
          code |-> "NoSuchKey", text |-> ErrorText("NoSuchKey", "GetObject")]
    ELSE [raised |-> FALSE, is_client_error |-> FALSE,
          code |-> NoFault, text |-> <<>>]

FaultResult(e) == Result(e.code, e.text, <<>>, <<>>, 0)

\* Variant: every ClientError of the read is reported as a missing object.
ReadLatestOnFaultAnyClientError(b, param, fault) ==
    LET e == GetObjectError(b, param.s3path_latest, fault)
    IN  IF ~e.raised THEN ReadLatest(b, param)
        ELSE IF e.is_client_error THEN ObjectNotExist
        ELSE FaultResult(e)

\* S3Parameter.read_latest: the try/except around read_text
ReadLatestOnFault(b, param, fault) ==
    LET e == GetObjectError(b, param.s3path_latest, fault)
    IN  IF ~e.raised THEN ReadLatest(b, param)
        ELSE IF e.is_client_error /\ Contains(e.text, "NoSuchKey")
        THEN ObjectNotExist
        ELSE FaultResult(e)

\* read_config when the given request meets the given fault
ReadConfigOnFault(st, b, n, name, fault, request) ==
    LET param == S3ParameterNew(st, name)
    IN  IF fault # NoFault /\ request = "get_bucket_versioning"
        THEN Outcome(b, n,
                     Result(fault, ErrorText(fault, "GetBucketVersioning"),
                            <<>>, <<>>, 0),
                     <<"get_bucket_versioning">>)
        ELSE IF param.raised
        THEN Outcome(b, n, SuspendedError, <<"get_bucket_versioning">>)
        ELSE Outcome(b, n, ReadLatestOnFault(b, param, fault),
                     <<"get_bucket_versioning", "get_object">>)

DoReadConfigOnFault ==
    \E fault \in BackendFaults \cup {NoFault}, request \in FaultyRequests :
        \* without a fault the request named makes no difference
        (fault = NoFault => request = "get_object") /\
        LET out == ReadConfigOnFault(status, bucket, vidCounter, ParameterName,
                                     fault, request)
        IN  /\ Len(log) < MaxOps
            /\ bucket' = out.bucket
            /\ vidCounter' = out.vidCounter
            /\ log' = Append(log, [op |-> "read_config", fault |-> fault,
                                   request |-> request,
                                   res |-> out.res, calls |-> out.calls])
            /\ UNCHANGED <<ssm, status, writers>>

NextOnFault ==
    \/ DoReadConfigOnFault
    \/ DoDeployConfig
    \/ DoDeleteConfig

SpecOnFault == Init /\ [][NextOnFault]_vars

----------------------------------------------------------------------------
(* The same caller on a bucket without versioning whose history has grown to
   the last numbers the six digits can hold; the older versioned objects
   have been cleaned up by hand, which the resolver is written to tolerate. *)

\* "Can support up to 999999 versions."
MaxVersionNumber == 999999

NearLimitVersions == {MaxVersionNumber - 1, MaxVersionNumber}

NearLimitBuckets ==
    LET param == S3ParameterNew(S3_NOT_ENABLED, ParameterName)
        deployed(v, c) ==
            DeployLatestWhenVersionNotEnabled(EmptyBucket, param, c, Str(v), 0)
    IN  {deployed(v, c) : v \in NearLimitVersions, c \in ConfigDatas}
        \cup {DeleteFile(deployed(v, c), S3_NOT_ENABLED, param.s3path_latest, 0) :
                v \in NearLimitVersions, c \in ConfigDatas}

InitNearLimit ==
    /\ status = S3_NOT_ENABLED
    /\ bucket \in NearLimitBuckets
    /\ vidCounter = 0
    /\ log = <<>>
    /\ writers = NoWriters
    /\ ssm = NoParameter

SpecNearLimit == InitNearLimit /\ [][Next]_vars

----------------------------------------------------------------------------
(* S3Parameter(s3dir_config, parameter_name) with write(value, version) and
   read(version): the per-version store that deployment.py and config.py
   call and test_aws_s3.py exercises, on a bucket without versioning. *)

MaxParamVersion == 2

\* The version argument: <<>> is None, <<n>> is the integer n.
ParamVersions == {<<>>} \cup {<<n>> : n \in 1..MaxParamVersion}

ParamValues == {JsonDumps(<<>>), JsonDumps(<< <<"a", "x">> >>)}

LATEST_VERSION == <<"L", "A", "T", "E", "S", "T">>

\* Variant: the version is padded as in a file name.
EncodeVersionPadded(version) ==
    IF version = <<>> THEN LATEST_VERSION ELSE ZFill(Str(version[1]), ZFILL)

\* encode_version(version)
EncodeVersion(version) ==
    IF version = <<>> THEN LATEST_VERSION ELSE Str(version[1])

\* sha256_of_text(value)
Sha256OfText(value) == <<"sha256">> \o value

\* 10 ** ZFILL
RECURSIVE Pow10(_)
Pow10(k) == IF k = 0 THEN 1 ELSE 10 * Pow10(k - 1)

\* Variant: the version argument does not reach the key.
GetS3PathOneKey(name, version) ==
    <<name, name \o <<ZFill(Str(0), ZFILL), LATEST_VERSION>>>>

\* Variant: the version number itself is padded, not its complement.
GetS3PathAscending(name, version) ==
    IF version = <<>>
    THEN <<name, name \o <<ZFill(Str(0), ZFILL), LATEST_VERSION>>>>
    ELSE <<name, name \o <<ZFill(Str(version[1]), ZFILL), Str(version[1])>>>>

\* S3Parameter.get_s3path(version):
\* {name}-000000-LATEST.json or {name}-{10**6 - n, six digits}-{n}.json
GetS3Path(name, version) ==
    IF version = <<>>
    THEN <<name, name \o <<ZFill(Str(0), ZFILL), LATEST_VERSION>>>>
    ELSE <<name, name \o <<ZFill(Str(Pow10(ZFILL) - version[1]), ZFILL),
                           Str(version[1])>>>>

TextResult(value) == Result("text", value, <<>>, <<>>, 0)
S3PathResult(key) == Result("S3Path", <<>>, <<>>, key, 0)

\* S3Parameter.write(value, version): one put_object, returns the S3Path
ParamWrite(b, st, n, name, value, version) ==
    Outcome(WriteText(b, st, GetS3Path(name, version), value,
                      {<<CONFIG_VERSION, EncodeVersion(version)>>,
                       <<CONFIG_SHA256, Sha256OfText(value)>>}, n),
            n, S3PathResult(GetS3Path(name, version)), <<"put_object">>)

\* S3Parameter.read(version): the text, or S3ObjectNotExist
ParamRead(b, n, name, version) ==
    IF S3Exists(b, GetS3Path(name, version))
    THEN Outcome(b, n, TextResult(ReadText(b, GetS3Path(name, version))),
                 <<"get_object">>)
    ELSE Outcome(b, n, ObjectNotExist, <<"get_object">>)

InitParam ==
    /\ status = S3_NOT_ENABLED
    /\ bucket = EmptyBucket
    /\ vidCounter = 0
    /\ log = <<>>
    /\ writers = NoWriters
    /\ ssm = NoParameter

ParamCall(op, value, version, out) ==
    /\ Len(log) < MaxOps
    /\ bucket' = out.bucket
    /\ vidCounter' = out.vidCounter
    /\ log' = Append(log, [op |-> op, value |-> value, version |-> version,
                           res |-> out.res, calls |-> out.calls])
    /\ UNCHANGED <<ssm, status, writers>>

DoParamWrite ==
    \E value \in ParamValues, version \in ParamVersions :
        ParamCall("write", value, version,
                  ParamWrite(bucket, status, vidCounter, ParameterName,
                             value, version))

DoParamRead ==
    \E version \in ParamVersions :
        ParamCall("read", <<>>, version,
                  ParamRead(bucket, vidCounter, ParameterName, version))

NextParam ==
    \/ DoParamWrite
    \/ DoParamRead

SpecParam == InitParam /\ [][NextParam]_vars

----------------------------------------------------------------------------
(* deployment.py: Deployment.deploy_to_s3 and Deployment.delete_from_s3, on
   the S3Parameter(s3dir_config, parameter_name) they construct. *)

\* Deployment.parameter_value
ParameterValue(parameter_data) == JsonDumps(parameter_data)

S3PathPairResult(s3path_latest, s3path_versioned) ==
    Result("S3PathPair", <<s3path_latest, s3path_versioned>>, <<>>, <<>>, 0)

\* Variant: both writes go to the latest object.
DeployToS3LatestTwice(b, st, n, name, parameter_data, version) ==
    LET latest == ParamWrite(b, st, n, name, ParameterValue(parameter_data), <<>>)
        again == ParamWrite(latest.bucket, st, latest.vidCounter, name,
                            ParameterValue(parameter_data), <<>>)
    IN  Outcome(again.bucket, again.vidCounter,
                S3PathPairResult(latest.res.key, again.res.key),
                latest.calls \o again.calls)

\* Deployment.deploy_to_s3: write the latest object, then the versioned one
DeployToS3(b, st, n, name, parameter_data, version) ==
    LET latest == ParamWrite(b, st, n, name, ParameterValue(parameter_data), <<>>)
        versioned == ParamWrite(latest.bucket, st, latest.vidCounter, name,
                                ParameterValue(parameter_data), <<version>>)
    IN  Outcome(versioned.bucket, versioned.vidCounter,
                S3PathPairResult(latest.res.key, versioned.res.key),
                latest.calls \o versioned.calls)

\* Variant: the whole parameter directory is deleted.
DeleteFromS3WholeDir(b, st, n, name, version) ==
    Outcome(DeleteDir(b, <<name>>), n, NoneResult, <<"delete_objects">>)

\* Deployment.delete_from_s3: get_s3path(version).delete()
DeleteFromS3(b, st, n, name, version) ==
    Outcome(DeleteFile(b, st, GetS3Path(name, version), n), n, NoneResult,
            <<"delete_object">>)

\* the parameter_data of the deployments
DeploymentDatas == {d \in ConfigDatas : Len(d) <= 1}

DoDeployToS3 ==
    \E parameter_data \in DeploymentDatas, version \in 1..MaxParamVersion :
        ParamCall("deploy_to_s3", parameter_data, <<version>>,
                  DeployToS3(bucket, status, vidCounter, ParameterName,
                             parameter_data, version))

DoDeleteFromS3 ==
    \E version \in ParamVersions :
        ParamCall("delete_from_s3", <<>>, version,
                  DeleteFromS3(bucket, status, vidCounter, ParameterName,
                               version))

NextDeployment ==
    \/ DoDeployToS3
    \/ DoDeleteFromS3

SpecDeployment == InitParam /\ [][NextDeployment]_vars

----------------------------------------------------------------------------
(* config.py: BaseConfig.deploy_env_parameter and delete_env_parameter.  The
   SSM parameter is the one of simple_aws_ssm_parameter_store: a value and a
   version that counts the puts since the parameter was created. *)

Parameter(value, version) ==
    [exists |-> TRUE, value |-> value, version |-> version]

\* put_parameter_if_changed: before_param and after_param; after_param is
\* None when the stored value equals the given one
PutParameterIfChanged(param, value) ==
    IF param.exists /\ param.value = value
    THEN [ssm |-> param, before_param |-> param, after_param |-> NoParameter]
    ELSE [ssm |-> Parameter(value, param.version + 1),
          before_param |-> param,
          after_param |-> Parameter(value, param.version + 1)]

\* DeploymentResult; a path that is None is <<>>
DeploymentResult(param, s3path_latest, s3path_versioned) ==
    [kind |-> "DeploymentResult", param |-> param,
     s3path_latest |-> s3path_latest, s3path_versioned |-> s3path_versioned]

\* DeploymentResult.is_ssm_deployed, DeploymentResult.is_s3_deployed
IsSsmDeployed(result) == result.param.exists
IsS3Deployed(result) == result.s3path_latest # <<>>

ConfigOutcome(p, b, n, res, calls) ==
    [ssm |-> p, bucket |-> b, vidCounter |-> n, res |-> res, calls |-> calls]

\* Variant: the S3 objects are written whether or not the parameter changed.
DeployEnvParameterAlwaysS3(param, b, st, n, name, parameter_data) ==
    LET parameter_value == JsonDumps(parameter_data)
        put == PutParameterIfChanged(param, parameter_value)
        latest == ParamWrite(b, st, n, name, parameter_value, <<>>)
        versioned == ParamWrite(latest.bucket, st, latest.vidCounter, name,
                                parameter_value, <<put.ssm.version>>)
    IN  ConfigOutcome(put.ssm, versioned.bucket, versioned.vidCounter,
                      DeploymentResult(put.after_param, latest.res.key,
                                       versioned.res.key),
                      <<"put_parameter_if_changed">> \o latest.calls
                          \o versioned.calls)

\* BaseConfig.deploy_env_parameter
DeployEnvParameter(param, b, st, n, name, parameter_data) ==
    LET parameter_value == JsonDumps(parameter_data)
        put == PutParameterIfChanged(param, parameter_value)
        after_param == put.after_param
        latest == ParamWrite(b, st, n, name, parameter_value, <<>>)
        versioned == ParamWrite(latest.bucket, st, latest.vidCounter, name,
                                parameter_value, <<after_param.version>>)
    IN  IF after_param # NoParameter
        THEN ConfigOutcome(put.ssm, versioned.bucket, versioned.vidCounter,
                           DeploymentResult(after_param, latest.res.key,
                                            versioned.res.key),
                           <<"put_parameter_if_changed">> \o latest.calls
                               \o versioned.calls)
        ELSE ConfigOutcome(put.ssm, b, n,
                           DeploymentResult(after_param, <<>>, <<>>),
                           <<"put_parameter_if_changed">>)

\* S3Parameter.delete_all: every object of the parameter directory
ParamDeleteAll(b, name) == DeleteDir(b, <<name>>)

ValueError == Result("ValueError", <<>>, <<>>, <<>>, 0)

\* BaseConfig.delete_env_parameter; s3_given: both s3_client and
\* s3dir_config are passed and not None
DeleteEnvParameter(param, b, n, name, include_s3, s3_given) ==
    IF include_s3
    THEN IF ~s3_given
         THEN ConfigOutcome(NoParameter, b, n, ValueError,
                            <<"delete_parameter">>)
         ELSE ConfigOutcome(NoParameter, ParamDeleteAll(b, name), n, NoneResult,
                            <<"delete_parameter", "delete_objects">>)
    ELSE ConfigOutcome(NoParameter, b, n, NoneResult, <<"delete_parameter">>)

ConfigCall(op, parameter_data, include_s3, s3_given, out) ==
    /\ Len(log) < MaxOps
    /\ ssm' = out.ssm
    /\ bucket' = out.bucket
    /\ vidCounter' = out.vidCounter
    /\ log' = Append(log, [op |-> op, parameter_data |-> parameter_data,
                           include_s3 |-> include_s3, s3_given |-> s3_given,
                           res |-> out.res, calls |-> out.calls])
    /\ UNCHANGED <<status, writers>>

DoDeployEnvParameter ==
    \E parameter_data \in ConfigDatas :
        ConfigCall("deploy_env_parameter", parameter_data, FALSE, TRUE,
                   DeployEnvParameter(ssm, bucket, status, vidCounter,
                                      ParameterName, parameter_data))

DoDeleteEnvParameter ==
    \E include_s3 \in BOOLEAN, s3_given \in BOOLEAN :
        ConfigCall("delete_env_parameter", <<>>, include_s3, s3_given,
                   DeleteEnvParameter(ssm, bucket, vidCounter, ParameterName,
                                      include_s3, s3_given))

NextConfig ==
    \/ DoDeployEnvParameter
    \/ DoDeleteEnvParameter

SpecConfig == InitParam /\ [][NextConfig]_vars

----------------------------------------------------------------------------
(* The listing of the parameter directory of S3Parameter(s3dir_config,
   parameter_name): s3dir_param.iter_objects() answers in the order of
   list_objects_v2, the binary order of the key text. *)

\* The characters of the keys, in the order of their code points.
CharOrder ==
    <<"-", ".", "0", "1", "2", "3", "4", "5", "6", "7", "8", "9",
      "A", "E", "L", "N", "S", "T", "j", "n", "o", "p", "s">>

Ord(ch) == CHOOSE i \in 1..Len(CharOrder) : CharOrder[i] = ch

RECURSIVE JoinSegments(_)
JoinSegments(segs) ==
    IF Len(segs) = 1 THEN segs[1]
    ELSE segs[1] \o <<"-">> \o JoinSegments(Tail(segs))

\* The text of a file name: the segments joined by "-", and ".json".
Basename(fname) == JoinSegments(fname) \o <<".", "j", "s", "o", "n">>

RECURSIVE LexLess(_, _)
LexLess(s, t) ==
    IF t = <<>> THEN FALSE
    ELSE IF s = <<>> THEN TRUE
    ELSE IF s[1] = t[1] THEN LexLess(Tail(s), Tail(t))
    ELSE Ord(s[1]) < Ord(t[1])

RECURSIVE SortedKeys(_)
SortedKeys(keys) ==
    IF keys = {} THEN <<>>
    ELSE LET first == CHOOSE k \in keys :
                          \A o \in keys \ {k} :
                              LexLess(Basename(FName(k)), Basename(FName(o)))
         IN  <<first>> \o SortedKeys(keys \ {first})

ListingResult(keys) == Result("listing", keys, <<>>, <<>>, 0)

\* list(s3_param.s3dir_param.iter_objects(bsm))
ParamListDir(b, n, name) ==
    Outcome(b, n, ListingResult(SortedKeys(IterObjects(b, <<name>>))),
            <<"list_objects_v2">>)

\* Version numbers around the changes of digit count, up to the largest.
ListingNumbers == {1, 2, 9, 10, 99, 100, 999990, 999999}

ListingVersions == {<<>>} \cup {<<n>> : n \in ListingNumbers}

DoListingWrite ==
    \E version \in ListingVersions :
        ParamCall("write", JsonDumps(<<>>), version,
                  ParamWrite(bucket, status, vidCounter, ParameterName,
                             JsonDumps(<<>>), version))

DoParamListDir ==
    ParamCall("iter_objects", <<>>, <<>>,
              ParamListDir(bucket, vidCounter, ParameterName))

NextListing ==
    \/ DoListingWrite
    \/ DoParamListDir

SpecListing == InitParam /\ [][NextListing]_vars

----------------------------------------------------------------------------
(* Several deploy_config calls on the same parameter at once.  Nothing in
   s3.py locks: a call is a sequence of separate backend requests, and the
   requests of different calls interleave freely.  Each step below is one
   request of one call, with what the call decides from its answer. *)

Writers == {"w1", "w2", "w3"}

WriterDatas == {<<>>, << <<"a", "x">> >>, << <<"b", "x">> >>}

Writer(pc, config_data, already_exists, new_version, order, res) ==
    [pc |-> pc, config_data |-> config_data, already_exists |-> already_exists,
     new_version |-> new_version, order |-> order, res |-> res]

\* the request that follows the change check
AfterCheck(param) == IF param.version_enabled THEN "put" ELSE "resolve"

InitWriters ==
    /\ status \in {S3_NOT_ENABLED, S3_ENABLED}
    /\ bucket = EmptyBucket
    /\ vidCounter = 0
    /\ log = <<>>
    /\ writers \in [Writers -> {Writer("exists", d, FALSE, 0, 0, NoneResult) :
                                   d \in WriterDatas}]
    /\ ssm = NoParameter

\* already_exists = s3path_latest.exists(bsm=bsm)
WriterExists(w) ==
    LET param == S3ParameterNew(status, ParameterName)
        already_exists == S3Exists(bucket, param.s3path_latest)
    IN  /\ writers[w].pc = "exists"
        /\ writers' = [writers EXCEPT
              ![w].already_exists = already_exists,
              ![w].pc = IF already_exists THEN "read" ELSE AfterCheck(param)]
        /\ UNCHANGED <<ssm, status, bucket, vidCounter, log>>

\* existing_config_data, _ = s3parameter.read_latest(bsm=bsm) and the
\* comparison with config_data
WriterRead(w) ==
    LET param == S3ParameterNew(status, ParameterName)
        existing == ReadLatest(bucket, param)
    IN  /\ writers[w].pc = "read"
        /\ writers' = [writers EXCEPT ![w] =
              IF existing = ObjectNotExist
              THEN [@ EXCEPT !.pc = "done", !.res = ObjectNotExist]
              ELSE IF DictEq(existing.data, @.config_data)
              THEN [@ EXCEPT !.pc = "done", !.res = NoneResult]
              ELSE [@ EXCEPT !.pc = AfterCheck(param)]]
        /\ UNCHANGED <<ssm, status, bucket, vidCounter, log>>

\* latest_version = get_latest_config_version_when_version_not_enabled(),
\* then new_version
WriterResolve(w) ==
    LET param == S3ParameterNew(status, ParameterName)
    IN  /\ writers[w].pc = "resolve"
        /\ writers' = [writers EXCEPT
              ![w].new_version =
                  NewVersion(GetLatestConfigVersionWhenVersionNotEnabled(bucket, param)),
              ![w].pc = "put"]
        /\ UNCHANGED <<ssm, status, bucket, vidCounter, log>>

\* the write_text of deploy_latest_when_version_not_enabled
PutVersioned(b, param, config_data, config_version, n) ==
    WriteText(b, param.version_status, S3PathVersioned(param, config_version),
              JsonDumps(config_data),
              {<<CONFIG_VERSION, config_version>>,
               <<CONFIG_SHA256, Sha256OfConfigData(config_data)>>},
              n)

\* s3path_versioned.write_text(...), or s3path_latest.write_text(...) in a
\* versioned bucket, where it ends the call
WriterPut(w) ==
    LET param == S3ParameterNew(status, ParameterName)
        config_version == Str(writers[w].new_version)
    IN  /\ writers[w].pc = "put"
        /\ IF param.version_enabled
           THEN /\ bucket' = DeployLatestWhenVersionIsEnabled(
                                 bucket, param, writers[w].config_data, vidCounter)
                /\ vidCounter' = vidCounter + 1
                /\ writers' = [writers EXCEPT
                      ![w].pc = "done",
                      ![w].order = vidCounter + 1,
                      ![w].res = S3ObjectResult(param.s3path_latest,
                                                NewVid(vidCounter))]
           ELSE /\ bucket' = PutVersioned(bucket, param, writers[w].config_data,
                                          config_version, vidCounter)
                /\ vidCounter' = vidCounter
                /\ writers' = [writers EXCEPT
                      ![w].pc = "copy",
                      ![w].res = S3ObjectResult(
                                     S3PathVersioned(param, config_version), <<>>)]
        /\ UNCHANGED <<ssm, status, log>>

\* s3path_versioned.copy_to(self.s3path_latest, overwrite=True)
WriterCopy(w) ==
    LET param == S3ParameterNew(status, ParameterName)
    IN  /\ writers[w].pc = "copy"
        /\ bucket' = CopyTo(bucket, status,
                            S3PathVersioned(param, Str(writers[w].new_version)),
                            param.s3path_latest, vidCounter)
        /\ writers' = [writers EXCEPT ![w].pc = "done"]
        /\ UNCHANGED <<ssm, status, vidCounter, log>>

NextWriters ==
    \E w \in Writers :
        \/ WriterExists(w)
        \/ WriterRead(w)
        \/ WriterResolve(w)
        \/ WriterPut(w)
        \/ WriterCopy(w)

SpecWriters == InitWriters /\ [][NextWriters]_vars

----------------------------------------------------------------------------
(* Two deploy_config calls at once with the same new content, on a parameter
   that holds another content: the steps are those of the writers above. *)

WriterPair == {"w1", "w2"}

\* the bucket after one deploy_config of config_data on an empty bucket
BucketHolding(st, config_data) ==
    DeployConfig(st, EmptyBucket, 0, ParameterName, config_data)

InitPair ==
    /\ status \in {S3_NOT_ENABLED, S3_ENABLED}
    /\ \E current \in WriterDatas : \E config_data \in WriterDatas \ {current} :
           /\ bucket = BucketHolding(status, current).bucket
           /\ vidCounter = BucketHolding(status, current).vidCounter
           /\ writers = [w \in WriterPair |->
                            Writer("exists", config_data, FALSE, 0, 0, NoneResult)]
    /\ log = <<>>
    /\ ssm = NoParameter

NextPair ==
    \E w \in WriterPair :
        \/ WriterExists(w)
        \/ WriterRead(w)
        \/ WriterResolve(w)
        \/ WriterPut(w)
        \/ WriterCopy(w)

SpecPair == InitPair /\ [][NextPair]_vars

----------------------------------------------------------------------------
(* deploy_config with its tags argument.  write_text(tags=tags) stores the
   tags with the object it puts, and copy_object carries them to the pointer;
   nothing else in s3.py reads or writes tags. *)

TagSets == {{}, {<<"owner", "x">>}}

WithTags(e, tags) ==
    [vid |-> e.vid, marker |-> e.marker, body |-> e.body, meta |-> e.meta,
     tags |-> tags]

\* the bucket after a call that wrote its objects with the given tags
Tagged(before, after, tags) ==
    [key \in DOMAIN after |->
        IF key \in DOMAIN before /\ after[key] = before[key]
        THEN before[key]
        ELSE IF after[key][1].marker THEN after[key]
        ELSE <<WithTags(after[key][1], tags)>> \o Tail(after[key])]

\* Variant: a call that finds the content unchanged still brings the tags
\* of the stored object up to date.
DeployConfigTaggedSyncsTags(st, b, n, name, config_data, tags) ==
    LET out == DeployConfig(st, b, n, name, config_data)
        latest == S3PathLatest(st, name)
    IN  IF out.res = NoneResult
        THEN [out EXCEPT !.bucket =
                  SetHistory(b, latest,
                             <<WithTags(b[latest][1], tags)>> \o Tail(b[latest]))]
        ELSE [out EXCEPT !.bucket = Tagged(b, out.bucket, tags)]

\* deploy_config(config_data, tags)
DeployConfigTagged(st, b, n, name, config_data, tags) ==
    LET out == DeployConfig(st, b, n, name, config_data)
    IN  [out EXCEPT !.bucket = Tagged(b, out.bucket, tags)]

TaggedCall(op, config_data, tags, out) ==
    /\ Len(log) < MaxOps
    /\ bucket' = out.bucket
    /\ vidCounter' = out.vidCounter
    /\ log' = Append(log, [op |-> op, config_data |-> config_data,
                           tags |-> tags, res |-> out.res, calls |-> out.calls])
    /\ UNCHANGED <<ssm, status, writers>>

DoDeployConfigTagged ==
    \E config_data \in WriterDatas, tags \in TagSets :
        TaggedCall("deploy_config", config_data, tags,
                   DeployConfigTagged(status, bucket, vidCounter, ParameterName,
                                      config_data, tags))

NextTagged ==
    \/ DoDeployConfigTagged
    \/ DoDeleteConfig

SpecTagged == Init /\ [][NextTagged]_vars

----------------------------------------------------------------------------
(* One caller that makes its calls one after the other, a deploy_config
   call being the same sequence of requests as above.  In SpecRetry any
   request of a deploy_config call may fail: the exception leaves
   deploy_config, which catches nothing, and the caller goes on with its
   next call. *)

Caller == "w1"

TransportError == Result("TransportError", <<>>, <<>>, <<>>, 0)

\* The call of the caller: the writer of above and the bucket as it was
\* when the call began.
CallRecord(pc, config_data, before) ==
    [pc |-> pc, config_data |-> config_data, already_exists |-> FALSE,
     new_version |-> 0, order |-> 0, res |-> NoneResult, before |-> before]

Idle == CallRecord("idle", <<>>, EmptyBucket)

InitCaller ==
    /\ status \in {S3_NOT_ENABLED, S3_ENABLED}
    /\ bucket = EmptyBucket
    /\ vidCounter = 0
    /\ log = <<>>
    /\ writers = [w \in {Caller} |-> Idle]
    /\ ssm = NoParameter

\* deploy_config is called
CallerBegin ==
    /\ writers[Caller].pc = "idle"
    /\ Len(log) < MaxOps
    /\ \E config_data \in WriterDatas :
           writers' = [writers EXCEPT
                          ![Caller] = CallRecord("exists", config_data, bucket)]
    /\ UNCHANGED <<ssm, status, bucket, vidCounter, log>>

DeployEntry(call, res, failed_at) ==
    [op |-> "deploy_config", config_data |-> call.config_data,
     include_history |-> FALSE, res |-> res, calls |-> <<>>,
     failed_at |-> failed_at, before |-> call.before]

\* deploy_config returns
CallerReturn ==
    /\ writers[Caller].pc = "done"
    /\ log' = Append(log, DeployEntry(writers[Caller], writers[Caller].res, "none"))
    /\ writers' = [writers EXCEPT ![Caller] = Idle]
    /\ UNCHANGED <<ssm, status, bucket, vidCounter>>

\* the next request of deploy_config raises and the call ends with it
CallerFail ==
    /\ writers[Caller].pc \in {"exists", "read", "resolve", "put", "copy"}
    /\ log' = Append(log, DeployEntry(writers[Caller], TransportError,
                                      writers[Caller].pc))
    /\ writers' = [writers EXCEPT ![Caller] = Idle]
    /\ UNCHANGED <<ssm, status, bucket, vidCounter>>

\* delete_config, between two deploy_config calls
CallerDelete ==
    /\ writers[Caller].pc = "idle"
    /\ DoDeleteConfig

NextCaller ==
    \/ CallerBegin
    \/ WriterExists(Caller)
    \/ WriterRead(Caller)
    \/ WriterResolve(Caller)
    \/ WriterPut(Caller)
    \/ WriterCopy(Caller)
    \/ CallerReturn
    \/ CallerDelete

SpecCaller == InitCaller /\ [][NextCaller]_vars

SpecRetry == InitCaller /\ [][NextCaller \/ CallerFail]_vars

----------------------------------------------------------------------------
(* Two parameters in the same config directory: "p" and "p-2", the second
   name beginning with the first and ending in digits.  A parameter name is
   one path component (it holds no "/"). *)

OtherName == << <<"p">>, <<"2">> >>

ParameterNames == {ParameterName, OtherName}

NamedCall(op, name, config_data, include_history, out) ==
    /\ Len(log) < MaxOps
    /\ bucket' = out.bucket
    /\ vidCounter' = out.vidCounter
    /\ log' = Append(log, [op |-> op, name |-> name,
                           config_data |-> config_data,
                           include_history |-> include_history,
                           res |-> out.res, calls |-> out.calls])
    /\ UNCHANGED <<ssm, status, writers>>

DoDeployConfigNamed ==
    \E name \in ParameterNames, config_data \in WriterDatas :
        NamedCall("deploy_config", name, config_data, FALSE,
                  DeployConfig(status, bucket, vidCounter, name, config_data))

DoDeleteConfigNamed ==
    \E name \in ParameterNames, include_history \in BOOLEAN :
        NamedCall("delete_config", name, <<>>, include_history,
                  DeleteConfig(status, bucket, vidCounter, name,
                               include_history))

NextNamed ==
    \/ DoDeployConfigNamed
    \/ DoDeleteConfigNamed

SpecNamed == Init /\ [][NextNamed]_vars

----------------------------------------------------------------------------
(* The versioned keys of a bucket without versioning, built for version
   numbers over the whole range of the six digits, and what the scan of the
   directory reads back from them with the pointer in the listing. *)

CodecNumbers ==
    {1, 9, 10, 99, 100, 100000, MaxVersionNumber - 1, MaxVersionNumber}

DoDeployLatestWhenVersionNotEnabled ==
    \E n \in CodecNumbers :
        LET param == S3ParameterNew(status, ParameterName)
            key == S3PathVersioned(param, Str(n))
            after == DeployLatestWhenVersionNotEnabled(
                         bucket, param, <<>>, Str(n), vidCounter)
        IN  /\ Len(log) < MaxOps
            /\ bucket' = after
            /\ log' = Append(log,
                   [op |-> "deploy_latest_when_version_not_enabled",
                    n |-> n,
                    key |-> key,
                    parsed |-> VersionsIn({key}),
                    scanned |-> VersionsIn(
                        IterObjects(after, Parent(param.s3path_latest)))])
            /\ UNCHANGED <<ssm, status, vidCounter, writers>>

NextCodec == DoDeployLatestWhenVersionNotEnabled

SpecCodec == InitParam /\ [][NextCodec]_vars

----------------------------------------------------------------------------
(* Vocabulary of the properties. *)

Last == log[Len(log)]

Called(op) == Len(log) > 0 /\ Last.op = op

\* what read_config and the resolver would answer in the current state
ReadNow == ReadConfig(status, bucket, vidCounter, ParameterName).res
ResolveNow == ResolveLatestVersion(status, bucket, vidCounter, ParameterName).res

\* content equality of two configuration blobs, key by key
SameContent(c1, c2) ==
    \A k \in ConfigKeys : \A v \in ConfigValues :
        (\E i \in 1..Len(c1) : c1[i] = <<k, v>>) <=>
        (\E i \in 1..Len(c2) : c2[i] = <<k, v>>)

Wrote(e) == e.op = "deploy_config" /\ e.res.kind = "S3Object"

SoftDeleted(e) ==
    e.op = "delete_config" /\ ~e.include_history /\ e.res.kind = "True"

HardDeleted(e) ==
    e.op = "delete_config" /\ e.include_history /\ e.res.kind = "True"

\* the decimal text of the version numbers 1..9
Token == <<"1", "2", "3", "4", "5", "6", "7", "8", "9">>

PointerKey == <<ParameterName, <<ParameterName[1], LatestSeg>>>>

VersionedKey(k) ==
    <<ParameterName,
      <<ParameterName[1], <<"0", "0", "0", "0", "0", Token[k]>>>>>>

CanonicalKey == <<ParameterName>>

----------------------------------------------------------------------------
\* C1: round trip. In both versioning modes and for every content C, right
\* after deploy_config wrote or skipped C, read_config returns content equal
\* to C.
C1_RoundTrip ==
    (Called("deploy_config") /\ status # S3_SUSPENDED) =>
        /\ ReadNow.kind = "config"
        /\ SameContent(ReadNow.data, Last.config_data)

C1_Witness ==
    /\ Called("deploy_config")
    /\ Wrote(Last)
    /\ Len(Last.config_data) = 2
    /\ ReadNow.kind = "config"
    /\ ReadNow.data = Last.config_data

\* C2: idempotent write. When the path is readable with content equal to C,
\* deploy_config of C returns None, leaves the bucket exactly as it was,
\* issues no mutating request and consumes no version.
C2_IdempotentWrite ==
    [][(/\ Len(log') = Len(log) + 1
        /\ log'[Len(log')].op = "deploy_config"
        /\ status # S3_SUSPENDED
        /\ ReadNow.kind = "config"
        /\ SameContent(ReadNow.data, log'[Len(log')].config_data))
       => (/\ log'[Len(log')].res = NoneResult
           /\ bucket' = bucket
           /\ vidCounter' = vidCounter
           /\ \A i \in 1..Len(log'[Len(log')].calls) :
                  log'[Len(log')].calls[i] \notin MutatingCalls)]_vars

C2_Witness ==
    /\ Len(log) >= 2
    /\ Wrote(log[Len(log) - 1])
    /\ Last.op = "deploy_config"
    /\ Last.res = NoneResult
    /\ Last.config_data # log[Len(log) - 1].config_data
    /\ SameContent(Last.config_data, log[Len(log) - 1].config_data)

\* C3: monotonic sequence. In a bucket without versioning, when the path
\* starts empty and the calls so far are N writes of pairwise distinct
\* content, the k-th write returned the versioned key numbered k, versioned
\* object k holds the k-th content with config_version "k", and the pointer
\* carries config_version "N".
C3_MonotonicSequence ==
    (/\ status = S3_NOT_ENABLED
     /\ Len(log) > 0
     /\ \A i \in 1..Len(log) : log[i].op = "deploy_config"
     /\ \A i, j \in 1..Len(log) :
            i # j => ~SameContent(log[i].config_data, log[j].config_data))
    => (/\ \A k \in 1..Len(log) :
              /\ log[k].res.kind = "S3Object"
              /\ log[k].res.key = VersionedKey(k)
              /\ S3Exists(bucket, VersionedKey(k))
              /\ SameContent(JsonLoads(ReadText(bucket, VersionedKey(k))),
                             log[k].config_data)
              /\ MetaGet(Metadata(bucket, VersionedKey(k)), CONFIG_VERSION)
                     = <<Token[k]>>
        /\ S3Exists(bucket, PointerKey)
        /\ MetaGet(Metadata(bucket, PointerKey), CONFIG_VERSION)
               = <<Token[Len(log)]>>
        /\ {k \in DOMAIN bucket : k # PointerKey}
               = {VersionedKey(k) : k \in 1..Len(log)})

C3_Witness ==
    /\ status = S3_NOT_ENABLED
    /\ Len(log) = 3
    /\ \A i \in 1..Len(log) : Wrote(log[i])
    /\ \A i, j \in 1..Len(log) :
           i # j => ~SameContent(log[i].config_data, log[j].config_data)
    /\ MetaGet(Metadata(bucket, PointerKey), CONFIG_VERSION) = <<"3">>

\* C4: pointer consistency. In either mode and after any earlier writes,
\* soft deletes and hard deletes, right after a deploy_config that actually
\* wrote C, read_config succeeds and returns content C.
C4_PointerConsistency ==
    (Len(log) > 0 /\ Wrote(Last)) =>
        /\ ReadNow.kind = "config"
        /\ ReadNow.data = Last.config_data

C4_Witness ==
    /\ Len(log) >= 3
    /\ Wrote(Last)
    /\ \E i \in 1..Len(log) - 1 : Wrote(log[i])
    /\ SoftDeleted(log[Len(log) - 1])
    /\ ReadNow.kind = "config"
    /\ ReadNow.data = Last.config_data

\* C5 as stated: marker skip. In a versioned bucket, after a write v1, a
\* write v2 of distinct content and one soft delete, the resolver returns the
\* identifier of v1.
C5_MarkerSkipReturnsV1 ==
    (/\ status = S3_ENABLED
     /\ Len(log) >= 4
     /\ Wrote(log[Len(log) - 3])
     /\ Wrote(log[Len(log) - 2])
     /\ SoftDeleted(log[Len(log) - 1])
     /\ Last.op = "resolve_latest_version")
    => Last.res = VersionIdResult(log[Len(log) - 3].res.version)

\* C5 as amended: marker skip. In a versioned bucket, after a write v1, a
\* write v2 of distinct content and one soft delete, the resolver returns the
\* identifier of v2, the entry the delete marker hides.
C5_MarkerSkipReturnsV2 ==
    (/\ status = S3_ENABLED
     /\ Len(log) >= 4
     /\ Wrote(log[Len(log) - 3])
     /\ Wrote(log[Len(log) - 2])
     /\ SoftDeleted(log[Len(log) - 1])
     /\ Last.op = "resolve_latest_version")
    => Last.res = VersionIdResult(log[Len(log) - 2].res.version)

C5_Witness ==
    /\ status = S3_ENABLED
    /\ Len(log) = 4
    /\ Wrote(log[1])
    /\ Wrote(log[2])
    /\ SoftDeleted(log[3])
    /\ Last.op = "resolve_latest_version"
    /\ Last.res.kind = "version_id"
    /\ Len(History(bucket, CanonicalKey)) = 3
    /\ History(bucket, CanonicalKey)[1].marker

\* C6: the resolver of a versioned bucket, on the history of the canonical
\* key, newest first: with zero entries it returns None; if the newest entry
\* is a delete marker it returns the identifier of the second entry;
\* otherwise it returns the identifier of the newest entry.
C6_ResolveEnabledCases ==
    (status = S3_ENABLED /\ Called("resolve_latest_version")) =>
        LET h == History(bucket, CanonicalKey)
        IN  /\ Len(h) = 0 => Last.res = NoneResult
            /\ (Len(h) > 0 /\ h[1].marker) =>
                   /\ Len(h) >= 2
                   /\ Last.res = VersionIdResult(h[2].vid)
            /\ (Len(h) > 0 /\ ~h[1].marker) =>
                   Last.res = VersionIdResult(h[1].vid)

\* C7: in a versioned bucket, after any writes and soft deletes, a version
\* returned by the resolver is never the identifier of a delete marker: it
\* is the identifier of the newest entry that is not a delete marker.
C7_ResolveNeverMarker ==
    (status = S3_ENABLED /\ Called("resolve_latest_version")
     /\ Last.res.kind = "version_id") =>
        LET h == History(bucket, CanonicalKey)
        IN  \E i \in 1..Len(h) :
                /\ ~h[i].marker
                /\ h[i].vid = Last.res.version
                /\ \A j \in 1..(i - 1) : h[j].marker

\* C8: hard delete. In either mode and after any writes and soft deletes,
\* right after delete_config with include_history, read_config fails with
\* S3ObjectNotExist, the resolver returns None, and no pointer, versioned
\* object, history entry or delete marker of the path is left.
C8_HardDeleteIrreversible ==
    (Len(log) > 0 /\ HardDeleted(Last)) =>
        /\ ReadNow = ObjectNotExist
        /\ ResolveNow = NoneResult
        /\ \A k \in DOMAIN bucket : k[1] # ParameterName

C8_Witness ==
    /\ status = S3_ENABLED
    /\ Len(log) >= 3
    /\ Wrote(log[Len(log) - 2])
    /\ SoftDeleted(log[Len(log) - 1])
    /\ HardDeleted(Last)
    /\ bucket = EmptyBucket

\* C9: suspended bucket. Every call on a bucket whose versioning is
\* suspended fails with S3BucketVersionSuspendedError after the versioning
\* status request alone: no object is read, listed, written or deleted and
\* the bucket is unchanged.
C9_SuspendedRejected ==
    [][(status = S3_SUSPENDED /\ Len(log') = Len(log) + 1) =>
        /\ log'[Len(log')].res = SuspendedError
        /\ log'[Len(log')].calls = <<"get_bucket_versioning">>
        /\ bucket' = bucket
        /\ vidCounter' = vidCounter]_vars

C9_Witness ==
    /\ status = S3_SUSPENDED
    /\ bucket = SuspendedBucketWithObject
    /\ \E i, j, k \in 1..Len(log) :
           /\ log[i].op = "read_config"
           /\ log[j].op = "deploy_config"
           /\ log[k].op = "delete_config"
    /\ \A i \in 1..Len(log) : log[i].res = SuspendedError

\* C10: soft delete without versioning removes the pointer object only:
\* every versioned object keeps its key, content and metadata and stays
\* fetchable, and read_config fails with S3ObjectNotExist until the next
\* write.
C10_SoftDeleteOnlyPointer ==
    /\ [][(/\ status = S3_NOT_ENABLED
           /\ Len(log') = Len(log) + 1
           /\ SoftDeleted(log'[Len(log')]))
          => (/\ DOMAIN bucket' = DOMAIN bucket \ {PointerKey}
              /\ \A k \in DOMAIN bucket' :
                     bucket'[k] = bucket[k] /\ S3Exists(bucket', k))]_vars
    /\ [](\A i \in 1..Len(log) :
            (/\ status = S3_NOT_ENABLED
             /\ SoftDeleted(log[i])
             /\ \A j \in (i + 1)..Len(log) : log[j].op # "deploy_config")
            => ReadNow = ObjectNotExist)

C10_Witness ==
    /\ status = S3_NOT_ENABLED
    /\ Len(log) >= 3
    /\ SoftDeleted(Last)
    /\ PointerKey \notin DOMAIN bucket
    /\ S3Exists(bucket, VersionedKey(1))
    /\ S3Exists(bucket, VersionedKey(2))
    /\ ReadNow = ObjectNotExist

\* C11: soft delete in a versioned bucket puts exactly one delete marker on
\* top of the history of the canonical key and removes or alters no entry:
\* every earlier version keeps its identifier, content and metadata, and
\* read_config fails with S3ObjectNotExist until the next write.
C11_SoftDeleteAddsOneMarker ==
    /\ [][(/\ status = S3_ENABLED
           /\ Len(log') = Len(log) + 1
           /\ SoftDeleted(log'[Len(log')]))
          => (/\ DOMAIN bucket' = DOMAIN bucket \cup {CanonicalKey}
              /\ Len(bucket'[CanonicalKey]) = Len(History(bucket, CanonicalKey)) + 1
              /\ bucket'[CanonicalKey][1].marker
              /\ Tail(bucket'[CanonicalKey]) = History(bucket, CanonicalKey)
              /\ \A i \in 2..Len(bucket'[CanonicalKey]) :
                     bucket'[CanonicalKey][i].vid # bucket'[CanonicalKey][1].vid)]_vars
    /\ [](\A i \in 1..Len(log) :
            (/\ status = S3_ENABLED
             /\ SoftDeleted(log[i])
             /\ \A j \in (i + 1)..Len(log) : log[j].op # "deploy_config")
            => ReadNow = ObjectNotExist)

C11_Witness ==
    /\ status = S3_ENABLED
    /\ Len(log) >= 3
    /\ SoftDeleted(Last)
    /\ Len(History(bucket, CanonicalKey)) = 3
    /\ History(bucket, CanonicalKey)[1].marker
    /\ ~History(bucket, CanonicalKey)[2].marker
    /\ ~History(bucket, CanonicalKey)[3].marker
    /\ ReadNow = ObjectNotExist

\* the numbers k whose versioned object exists
VersionNumbers == {k \in 1..Len(Token) : VersionedKey(k) \in DOMAIN bucket}

\* C12: the resolver without versioning. If the pointer object exists it
\* returns the number recorded in the pointer's config_version; if the
\* pointer is missing it returns the largest number among the keys of the
\* directory; it returns None when the directory holds no object.
C12_ResolveNotEnabledCases ==
    (status = S3_NOT_ENABLED /\ Called("resolve_latest_version")) =>
        /\ PointerKey \in DOMAIN bucket =>
               /\ Last.res.kind = "int"
               /\ MetaGet(Metadata(bucket, PointerKey), CONFIG_VERSION)
                      = <<Token[Last.res.number]>>
        /\ (PointerKey \notin DOMAIN bucket /\ VersionNumbers # {}) =>
               /\ Last.res.kind = "int"
               /\ Last.res.number \in VersionNumbers
               /\ \A k \in VersionNumbers : k <= Last.res.number
        /\ DOMAIN bucket = {} => Last.res = NoneResult

C12_Witness ==
    /\ status = S3_NOT_ENABLED
    /\ Called("resolve_latest_version")
    /\ PointerKey \notin DOMAIN bucket
    /\ VersionNumbers = {1, 2}
    /\ Last.res = IntResult(2)

\* C13: write-once history without versioning. Across writes and soft
\* deletes, a versioned object that exists keeps its key, content and
\* metadata; a write only adds one new versioned object and overwrites the
\* pointer.
C13_WriteOnceHistory ==
    [][(/\ status = S3_NOT_ENABLED
        /\ Len(log') = Len(log) + 1
        /\ ~HardDeleted(log'[Len(log')]))
       => (/\ \A k \in DOMAIN bucket \ {PointerKey} :
                  k \in DOMAIN bucket' /\ bucket'[k] = bucket[k]
           /\ Wrote(log'[Len(log')]) =>
                  /\ Cardinality(DOMAIN bucket' \ (DOMAIN bucket \cup {PointerKey})) = 1
                  /\ log'[Len(log')].res.key \in DOMAIN bucket' \ DOMAIN bucket
                  /\ bucket'[PointerKey] = bucket'[log'[Len(log')].res.key]
           /\ ~Wrote(log'[Len(log')]) =>
                  DOMAIN bucket' \subseteq DOMAIN bucket)]_vars

C13_Witness ==
    /\ status = S3_NOT_ENABLED
    /\ Len(log) >= 3
    /\ Wrote(log[Len(log) - 2])
    /\ SoftDeleted(log[Len(log) - 1])
    /\ Wrote(Last)
    /\ VersionNumbers = {1, 2}
    /\ ~SameContent(JsonLoads(ReadText(bucket, VersionedKey(1))),
                    JsonLoads(ReadText(bucket, VersionedKey(2))))

\* C14: contiguous versions without versioning. After any writes and soft
\* deletes on a path that started empty, the numbers of the existing
\* versioned objects are exactly 1..N for some N >= 0, and every key of the
\* directory other than the pointer is one of these versioned keys.
C14_ContiguousVersions ==
    (/\ status = S3_NOT_ENABLED
     /\ \A i \in 1..Len(log) : ~HardDeleted(log[i]))
    => \E N \in 0..Len(log) :
           DOMAIN bucket \ {PointerKey} = {VersionedKey(k) : k \in 1..N}

C14_Witness ==
    /\ status = S3_NOT_ENABLED
    /\ \A i \in 1..Len(log) : ~HardDeleted(log[i])
    /\ \E i \in 1..Len(log) : SoftDeleted(log[i])
    /\ DOMAIN bucket = {PointerKey, VersionedKey(1), VersionedKey(2), VersionedKey(3)}

\* C18: the boolean returned by delete_config tells whether a deletion was
\* performed: it is true when the call removed an object or a history entry
\* or wrote a delete marker, and it is not true when the path had nothing to
\* delete.
C18_DeleteReportsDeletion ==
    [][(/\ status # S3_SUSPENDED
        /\ Len(log') = Len(log) + 1
        /\ log'[Len(log')].op = "delete_config")
       => (log'[Len(log')].res = TrueResult <=> bucket' # bucket)]_vars

\* C19: read_config of a path without resolvable content fails with
\* S3ObjectNotExist and returns no content: without versioning whenever the
\* pointer object is missing, with versioning whenever the key has no entry
\* or only delete markers; the failed read changes nothing in the bucket.
C19_ReadNotFound ==
    [][(/\ Len(log') = Len(log) + 1
        /\ log'[Len(log')].op = "read_config"
        /\ \/ status = S3_NOT_ENABLED /\ PointerKey \notin DOMAIN bucket
           \/ /\ status = S3_ENABLED
              /\ \A i \in 1..Len(History(bucket, CanonicalKey)) :
                     History(bucket, CanonicalKey)[i].marker)
       => (/\ log'[Len(log')].res = ObjectNotExist
           /\ bucket' = bucket
           /\ vidCounter' = vidCounter
           /\ \A i \in 1..Len(log'[Len(log')].calls) :
                  log'[Len(log')].calls[i] \notin MutatingCalls)]_vars

C19_Witness ==
    /\ status = S3_ENABLED
    /\ Called("read_config")
    /\ Last.res = ObjectNotExist
    /\ Len(History(bucket, CanonicalKey)) = 2
    /\ \A i \in 1..2 : History(bucket, CanonicalKey)[i].marker

\* C17: version padding bound. Without versioning, the last segment of
\* every versioned key has exactly six digits, and a write whose new version
\* number exceeds 999999 is rejected: it stores no object under a wider key
\* and no object whose config_version has more than six digits.
C17_PaddingBound ==
    status = S3_NOT_ENABLED =>
        /\ \A k \in DOMAIN bucket \ {PointerKey} :
               Len(k[Len(k)][Len(k[Len(k)])]) = 6
        /\ \A k \in DOMAIN bucket :
               Len(MetaGet(bucket[k][1].meta, CONFIG_VERSION)) <= 6
        /\ (Len(log) > 0 /\ Wrote(Last)) =>
               Len(Last.res.key[Len(Last.res.key)][Len(Last.res.key[Len(Last.res.key)])]) = 6

\* The writes of the log made with the given version argument, as positions.
WritesOf(version) ==
    {i \in 1..Len(log) : log[i].op = "write" /\ log[i].version = version}

HasPut(w) == writers[w].res.kind = "S3Object"

AllDone == \A w \in Writers : writers[w].pc = "done"

\* C15: weak consistency of writers in a bucket without versioning. The
\* pointer always holds the content of whichever pointer update ran last:
\* a writer's copy request leaves in the pointer the body and metadata that
\* its versioned key held at that moment, under the version number that this
\* writer allocated, whatever the pointer held before, and no other request
\* of any writer changes the pointer.
C15_LastPointerUpdateWins ==
    [][status = S3_NOT_ENABLED =>
         \A w \in Writers :
             IF writers[w].pc = "copy" /\ writers'[w].pc = "done"
             THEN /\ PointerKey \in DOMAIN bucket'
                  /\ bucket'[PointerKey][1].body =
                         bucket[writers[w].res.key][1].body
                  /\ bucket'[PointerKey][1].meta =
                         bucket[writers[w].res.key][1].meta
                  /\ MetaGet(bucket'[PointerKey][1].meta, CONFIG_VERSION) =
                         <<Token[writers[w].new_version]>>
             ELSE writers'[w] # writers[w] =>
                      History(bucket', PointerKey) = History(bucket, PointerKey)
      ]_vars

\* All writers are done; two of them allocated the same version number and
\* the versioned object no longer holds what one of them put there; and the
\* pointer carries a version lower than the highest versioned object.
C15_Witness ==
    /\ status = S3_NOT_ENABLED
    /\ AllDone
    /\ \E w1, w2 \in Writers :
           /\ w1 # w2
           /\ HasPut(w1) /\ HasPut(w2)
           /\ writers[w1].new_version = writers[w2].new_version
           /\ bucket[writers[w1].res.key][1].body # JsonDumps(writers[w1].config_data)
    /\ \E k \in VersionNumbers :
           IntOf(MetaGet(bucket[PointerKey][1].meta, CONFIG_VERSION)) < k

\* C16: writers in a bucket with versioning. Every put adds exactly one
\* entry on top of the history of the canonical key, with a version
\* identifier that no other entry carries, and leaves the earlier entries as
\* they were; every writer that has put finds its own content in the history
\* under the identifier it was handed; and once all writers are done, a read
\* returns the content of the writer whose put the backend ordered last.
C16_EnabledWriters ==
    /\ [](status = S3_ENABLED =>
            LET h == History(bucket, CanonicalKey)
            IN  /\ \A i, j \in 1..Len(h) : i # j => h[i].vid # h[j].vid
                /\ Len(h) = Cardinality({w \in Writers : HasPut(w)})
                /\ \A w \in Writers :
                       HasPut(w) =>
                           \E i \in 1..Len(h) :
                               /\ h[i].vid = writers[w].res.version
                               /\ ~h[i].marker
                               /\ h[i].body = JsonDumps(writers[w].config_data)
                /\ (AllDone /\ \E w \in Writers : HasPut(w)) =>
                       LET last == CHOOSE w \in Writers :
                                       /\ HasPut(w)
                                       /\ \A x \in Writers :
                                              writers[x].order <= writers[w].order
                       IN  /\ ReadNow.kind = "config"
                           /\ SameContent(ReadNow.data, writers[last].config_data)
                           /\ ReadNow.version = writers[last].res.version)
    /\ [][status = S3_ENABLED =>
            \A w \in Writers :
                (writers[w].pc = "put" /\ writers'[w].pc = "done") =>
                    /\ Len(History(bucket', CanonicalKey)) =
                           Len(History(bucket, CanonicalKey)) + 1
                    /\ Tail(History(bucket', CanonicalKey)) =
                           History(bucket, CanonicalKey)
         ]_vars

\* Three writers with three different contents have all put, in a versioned
\* bucket; none of them saw an object when it checked.
C16_Witness ==
    /\ status = S3_ENABLED
    /\ AllDone
    /\ \A w \in Writers : HasPut(w) /\ ~writers[w].already_exists
    /\ Len(History(bucket, CanonicalKey)) = 3
    /\ \A w1, w2 \in Writers :
           w1 # w2 => writers[w1].config_data # writers[w2].config_data

\* The key of the latest pointer of S3Parameter(s3dir_config, name).
ParamLatestKey ==
    <<ParameterName,
      <<ParameterName[1], <<"0", "0", "0", "0", "0", "0">>, LATEST_VERSION>>>>

ParamVersionKey(k) ==
    <<ParameterName,
      <<ParameterName[1], <<"9", "9", "9", "9", "9", Token[10 - k]>>, <<Token[k]>>>>>>

C26_RetrySafety ==
    \A j \in 1..(Len(log) - 1) :
        (/\ status = S3_NOT_ENABLED
         /\ Len(log) = j + 1
         /\ writers[Caller].pc = "idle"
         /\ log[j].op = "deploy_config" /\ log[j].failed_at = "copy"
         /\ log[j + 1].op = "deploy_config" /\ log[j + 1].failed_at = "none"
         /\ log[j + 1].config_data = log[j].config_data)
        => /\ ReadNow.kind = "config"
           /\ SameContent(ReadNow.data, log[j].config_data)
           /\ \E k \in VersionNumbers :
                  /\ MetaGet(bucket[PointerKey][1].meta, CONFIG_VERSION) = <<Token[k]>>
                  /\ SameContent(JsonLoads(bucket[VersionedKey(k)][1].body),
                                 log[j].config_data)
           /\ \A key \in DOMAIN log[j].before \ {PointerKey} :
                  /\ key \in DOMAIN bucket
                  /\ bucket[key] = log[j].before[key]

MetaKeys(e) == {p[1] : p \in e.meta}

\* C28: metadata of stored objects. Every object that deploy_config wrote
\* carries config_sha256 equal to the checksum of its own content; without
\* versioning every versioned object also carries config_version equal to
\* the decimal string of the number in its key; with versioning no object
\* carries a config_version.
C28_StoredMetadata ==
    status \in {S3_NOT_ENABLED, S3_ENABLED} =>
        \A key \in DOMAIN bucket :
            \A i \in 1..Len(bucket[key]) :
                LET e == bucket[key][i]
                IN  ~e.marker =>
                        /\ MetaGet(e.meta, CONFIG_SHA256) =
                               Sha256OfConfigData(JsonLoads(e.body))
                        /\ status = S3_ENABLED => CONFIG_VERSION \notin MetaKeys(e)
                        /\ status = S3_NOT_ENABLED =>
                               /\ CONFIG_VERSION \in MetaKeys(e)
                               /\ \A k \in VersionNumbers :
                                      key = VersionedKey(k) =>
                                          MetaGet(e.meta, CONFIG_VERSION) = <<Token[k]>>
                               /\ key = PointerKey \/ \E k \in VersionNumbers :
                                                            key = VersionedKey(k)

\* Two versions were written without versioning.
C28_Witness ==
    /\ status = S3_NOT_ENABLED
    /\ Len(log) > 0 /\ Wrote(Last)
    /\ VersionNumbers = {1, 2}
    /\ PointerKey \in DOMAIN bucket

\* the key that a read serves, by mode
LatestKey == IF status = S3_ENABLED THEN CanonicalKey ELSE PointerKey

\* C29: the change check compares content only. When the parameter is
\* readable with content C, a deploy_config of C with tags different from
\* those of the stored object returns None, issues no mutating request, and
\* leaves the stored object, its tags and metadata included, and the rest of
\* the bucket as they were.
C29_TagsDoNotForceWrite ==
    [][(/\ Len(log') = Len(log) + 1
        /\ log'[Len(log')].op = "deploy_config"
        /\ ReadNow.kind = "config"
        /\ SameContent(ReadNow.data, log'[Len(log')].config_data)
        /\ bucket[LatestKey][1].tags # log'[Len(log')].tags)
       => /\ log'[Len(log')].res = NoneResult
          /\ bucket' = bucket
          /\ bucket'[LatestKey][1].tags = bucket[LatestKey][1].tags
          /\ bucket'[LatestKey][1].meta = bucket[LatestKey][1].meta
          /\ \A i \in 1..Len(log'[Len(log')].calls) :
                 log'[Len(log')].calls[i] \notin MutatingCalls]_vars

\* The same content was deployed twice, the second time with other tags:
\* the second call returned None and the stored object kept the first tags.
C29_Witness ==
    /\ Len(log) = 2
    /\ log[1].op = "deploy_config" /\ log[1].res.kind = "S3Object"
    /\ log[2].op = "deploy_config" /\ log[2].res = NoneResult
    /\ log[2].tags # log[1].tags
    /\ bucket[LatestKey][1].tags = log[1].tags

\* C30: error propagation on read. A read_config one of whose requests meets a
\* backend fault other than a missing key ends with that fault, as the
\* backend raised it: not with the not-found error, not with a result, and
\* without a second attempt of the request; without a fault it ends with the
\* not-found error exactly when the key that serves reads is missing or
\* hidden by a delete marker. The bucket is never changed.
C30_ReadFaultPropagates ==
    [][(/\ Len(log') = Len(log) + 1
        /\ log'[Len(log')].op = "read_config")
       => LET e == log'[Len(log')]
          IN  /\ bucket' = bucket
              /\ (e.fault # "none" /\ Contains(e.calls, e.request)) =>
                     /\ e.res.kind = e.fault
                     /\ e.res.kind \notin {"S3ObjectNotExist", "config"}
                     /\ Len(SelectSeq(e.calls, LAMBDA c : c = e.request)) = 1
                     /\ e.calls[Len(e.calls)] = e.request
              /\ (e.fault = "none" /\ status # S3_SUSPENDED) =>
                     (e.res = ObjectNotExist <=>
                          \/ LatestKey \notin DOMAIN bucket
                          \/ bucket[LatestKey][1].marker)
      ]_vars

\* With a readable object stored, one read met AccessDenied on its
\* get_object and ended with it, and one read of a soft-deleted parameter
\* ended with the not-found error.
C30_Witness ==
    /\ Len(log) = 4
    /\ log[1].op = "deploy_config"
    /\ log[2].op = "read_config" /\ log[2].fault = "AccessDenied"
    /\ log[2].request = "get_object" /\ log[2].res.kind = "AccessDenied"
    /\ log[3].op = "delete_config"
    /\ log[4].op = "read_config" /\ log[4].fault = "none"
    /\ log[4].res = ObjectNotExist

\* the keys whose history differs between two buckets
ChangedKeys(b1, b2) ==
    {k \in DOMAIN b1 \cup DOMAIN b2 : History(b1, k) # History(b2, k)}

\* how many times a call made the given backend request
Requests(e, request) == Len(SelectSeq(e.calls, LAMBDA c : c = request))

\* C31: key layout by mode. A deploy_config that writes, in a versioned
\* bucket, puts exactly one object, at the canonical key <name>.json (one
\* more entry in its history), and creates no pointer and no per-version
\* object; in a bucket without versioning it touches exactly two keys, the
\* versioned key <name>/<name>-<version as 6 digits>.json, which it returns,
\* and the pointer key <name>/<name>-latest.json.
C31_KeyLayout ==
    [][(Len(log') = Len(log) + 1 /\ Wrote(log'[Len(log')]))
       => LET e == log'[Len(log')]
          IN  /\ status = S3_ENABLED =>
                     /\ ChangedKeys(bucket, bucket') = {CanonicalKey}
                     /\ Len(bucket'[CanonicalKey]) =
                            Len(History(bucket, CanonicalKey)) + 1
                     /\ e.res.key = CanonicalKey
                     /\ DOMAIN bucket' = {CanonicalKey}
                     /\ Requests(e, "put_object") = 1
                     /\ Requests(e, "copy_object") = 0
              /\ status = S3_NOT_ENABLED =>
                     \E k \in 1..Len(Token) :
                         /\ e.res.key = VersionedKey(k)
                         /\ ChangedKeys(bucket, bucket') =
                                {VersionedKey(k), PointerKey}
                         /\ DOMAIN bucket' \subseteq
                                {PointerKey} \cup
                                {VersionedKey(i) : i \in 1..Len(Token)}
                         /\ Requests(e, "put_object") = 1
                         /\ Requests(e, "copy_object") = 1
      ]_vars

\* Without versioning, the second of two writes has just stored version 2
\* next to version 1 and the pointer.
C31_Witness ==
    /\ status = S3_NOT_ENABLED
    /\ Len(log) = 2
    /\ Wrote(log[1]) /\ Wrote(log[2])
    /\ log[2].res.key = VersionedKey(2)
    /\ DOMAIN bucket = {PointerKey, VersionedKey(1), VersionedKey(2)}

\* C32: the version reported by a read agrees with the resolver. When a
\* read_config succeeds and the resolver is asked in the same state, both
\* name the same version: without versioning the config_version of the
\* pointer (the read returns its decimal text, the resolver its number);
\* with versioning the identifier of the newest entry of the canonical key,
\* which is then not a delete marker.
C32_ReadAgreesWithResolver ==
    \A j \in 1..(Len(log) - 1) :
        (/\ Len(log) = j + 1
         /\ log[j].op = "read_config" /\ log[j].res.kind = "config"
         /\ log[j + 1].op = "resolve_latest_version")
        => /\ status = S3_NOT_ENABLED =>
                  /\ log[j + 1].res.kind = "int"
                  /\ log[j].res.version = Str(log[j + 1].res.number)
                  /\ log[j].res.version =
                         MetaGet(bucket[PointerKey][1].meta, CONFIG_VERSION)
           /\ status = S3_ENABLED =>
                  /\ log[j + 1].res = VersionIdResult(log[j].res.version)
                  /\ ~bucket[CanonicalKey][1].marker
                  /\ log[j].res.version = bucket[CanonicalKey][1].vid

\* Without versioning, after two writes a read returned version 2 and the
\* resolver then answered 2.
C32_Witness ==
    /\ status = S3_NOT_ENABLED
    /\ Len(log) = 4
    /\ Wrote(log[1]) /\ Wrote(log[2])
    /\ log[3].op = "read_config" /\ log[3].res.kind = "config"
    /\ log[3].res.version = <<"2">>
    /\ log[4].op = "resolve_latest_version" /\ log[4].res = IntResult(2)

\* C33: in a versioned bucket the resolver returns a version identifier or
\* None and never fails, whatever writes, soft deletes and hard deletes came
\* before, a history made of a single delete marker included.
C33_ResolveEnabledNeverFails ==
    (status = S3_ENABLED /\ Called("resolve_latest_version")) =>
        Last.res.kind \in {"version_id", "None"}

\* C34: write-once history survives a partial failure, without versioning.
\* When a deploy_config failed after putting the versioned object N+1 and
\* before copying it to the pointer, which still records N, a following
\* deploy_config of different content leaves the versioned object N+1 in
\* place with the content it had.
C34_WriteOnceAfterPartialFailure ==
    \A j \in 1..(Len(log) - 1) : \A k \in 1..(Len(Token) - 1) :
        (/\ status = S3_NOT_ENABLED
         /\ Len(log) = j + 1
         /\ writers[Caller].pc = "idle"
         /\ log[j].op = "deploy_config" /\ log[j].failed_at = "copy"
         /\ log[j + 1].op = "deploy_config"
         /\ ~SameContent(log[j + 1].config_data, log[j].config_data)
         /\ PointerKey \in DOMAIN log[j + 1].before
         /\ MetaGet(log[j + 1].before[PointerKey][1].meta, CONFIG_VERSION)
                = <<Token[k]>>
         /\ VersionedKey(k + 1) \in DOMAIN log[j + 1].before
         /\ SameContent(JsonLoads(log[j + 1].before[VersionedKey(k + 1)][1].body),
                        log[j].config_data))
        => /\ VersionedKey(k + 1) \in DOMAIN bucket
           /\ bucket[VersionedKey(k + 1)] = log[j + 1].before[VersionedKey(k + 1)]

\* C35: version allocation after a soft delete, without versioning. With
\* the pointer removed and the versioned objects 1..N kept, the next
\* deploy_config of any content, the content of version N included, writes:
\* it returns the versioned key N+1, the pointer is back with config_version
\* N+1 and that content, and the versioned objects 1..N are as they were.
C35_WriteAfterSoftDelete ==
    [][\A N \in 1..(Len(Token) - 1) :
        (/\ status = S3_NOT_ENABLED
         /\ PointerKey \notin DOMAIN bucket
         /\ VersionNumbers = 1..N
         /\ Len(log') = Len(log) + 1
         /\ log'[Len(log')].op = "deploy_config")
        => LET e == log'[Len(log')]
           IN  /\ e.res.kind = "S3Object"
               /\ e.res.key = VersionedKey(N + 1)
               /\ PointerKey \in DOMAIN bucket'
               /\ MetaGet(bucket'[PointerKey][1].meta, CONFIG_VERSION)
                      = <<Token[N + 1]>>
               /\ bucket'[PointerKey][1].body = JsonDumps(e.config_data)
               /\ bucket'[VersionedKey(N + 1)][1].body = JsonDumps(e.config_data)
               /\ \A k \in 1..N :
                      /\ VersionedKey(k) \in DOMAIN bucket'
                      /\ bucket'[VersionedKey(k)] = bucket[VersionedKey(k)]
      ]_vars

\* Two writes, a soft delete, and a write of the content of version 2 again:
\* it became version 3.
C35_Witness ==
    /\ status = S3_NOT_ENABLED
    /\ Len(log) = 4
    /\ Wrote(log[1]) /\ Wrote(log[2])
    /\ SoftDeleted(log[3])
    /\ Wrote(log[4])
    /\ SameContent(log[4].config_data, log[2].config_data)
    /\ log[4].res.key = VersionedKey(3)
    /\ VersionNumbers = {1, 2, 3}
    /\ bucket[VersionedKey(3)][1].body = bucket[VersionedKey(2)][1].body

\* C36: after a hard delete in a bucket without versioning the parameter
\* is as if never written: the resolver asked next returns None, and the
\* deploy_config made next is given version 1 (key <name>-000001.json,
\* config_version "1"), whatever the highest version was before.
C36_HardDeleteRestartsNumbering ==
    \A j \in 1..(Len(log) - 1) :
        (/\ status = S3_NOT_ENABLED
         /\ Len(log) = j + 1
         /\ HardDeleted(log[j]))
        => /\ log[j + 1].op = "resolve_latest_version" =>
                  log[j + 1].res = NoneResult
           /\ log[j + 1].op = "deploy_config" =>
                  /\ log[j + 1].res = S3ObjectResult(VersionedKey(1), <<>>)
                  /\ DOMAIN bucket = {PointerKey, VersionedKey(1)}
                  /\ MetaGet(bucket[PointerKey][1].meta, CONFIG_VERSION) = <<"1">>
                  /\ MetaGet(bucket[VersionedKey(1)][1].meta, CONFIG_VERSION)
                         = <<"1">>

\* Versions 1 and 2 were written and hard-deleted; the write that followed
\* is version 1 again.
C36_Witness ==
    /\ status = S3_NOT_ENABLED
    /\ Len(log) = 4
    /\ Wrote(log[1]) /\ log[1].res.key = VersionedKey(1)
    /\ Wrote(log[2]) /\ log[2].res.key = VersionedKey(2)
    /\ HardDeleted(log[3])
    /\ Wrote(log[4]) /\ log[4].res.key = VersionedKey(1)
    /\ VersionNumbers = {1}

\* the keys of a parameter: the canonical key, or those of its directory
KeysOf(b, name) == {k \in DOMAIN b : k[1] = name}

\* C37: isolation between parameters. For two distinct names p and q of the
\* same config directory, in both modes, a deploy_config, a soft delete or a
\* hard delete on p leaves every key of q with the history it had, creates
\* no key of q, and read_config and the resolver of q answer after the call
\* what they answered before it.
C37_Isolation ==
    [][\A p \in ParameterNames : \A q \in ParameterNames \ {p} :
        (/\ Len(log') = Len(log) + 1
         /\ log'[Len(log')].name = p)
        => /\ KeysOf(bucket', q) = KeysOf(bucket, q)
           /\ \A k \in KeysOf(bucket, q) : bucket'[k] = bucket[k]
           /\ ChangedKeys(bucket, bucket') \subseteq
                  KeysOf(bucket, p) \cup KeysOf(bucket', p)
           /\ ReadConfig(status, bucket', vidCounter', q).res
                  = ReadConfig(status, bucket, vidCounter, q).res
           /\ ResolveLatestVersion(status, bucket', vidCounter', q).res
                  = ResolveLatestVersion(status, bucket, vidCounter, q).res
      ]_vars

\* Without versioning both parameters were written and "p" was then
\* hard-deleted: the pointer and version 1 of "p-2" are all that is left.
C37_Witness ==
    /\ status = S3_NOT_ENABLED
    /\ Len(log) = 3
    /\ Wrote(log[1]) /\ log[1].name = OtherName
    /\ Wrote(log[2]) /\ log[2].name = ParameterName
    /\ HardDeleted(log[3]) /\ log[3].name = ParameterName
    /\ Cardinality(KeysOf(bucket, OtherName)) = 2
    /\ DOMAIN bucket = KeysOf(bucket, OtherName)
    /\ ReadConfig(status, bucket, vidCounter, OtherName).res.kind = "config"

\* the writers of the pair that have put, and the content both deploy
PairPuts == {w \in WriterPair : HasPut(w)}
PairContent == writers["w1"].config_data
PairDone == \A w \in WriterPair : writers[w].pc = "done"

\* C38 as stated: two concurrent writers of the same new content create at
\* most one new version: without versioning one new versioned object
\* number, with versioning one new history entry.
C38_AtMostOneNewVersion ==
    /\ status = S3_NOT_ENABLED => Cardinality(VersionNumbers \ {1}) <= 1
    /\ status = S3_ENABLED => Len(History(bucket, CanonicalKey)) <= 2

\* C38, amended: two concurrent writers of the same new content C create at
\* most one new version each, two at most, and every new version holds C.
\* With versioning the history has one new entry per writer that has put;
\* without versioning the new numbers are N+1 and, if one writer resolves
\* after the other has updated the pointer, N+2; once both are done a read
\* returns C.
C38_AtMostOneNewVersionEach ==
    /\ status = S3_NOT_ENABLED =>
           /\ VersionNumbers \subseteq {1, 2, 3}
           /\ Cardinality(VersionNumbers \ {1}) <= Cardinality(PairPuts)
           /\ \A k \in VersionNumbers \ {1} :
                  bucket[VersionedKey(k)][1].body = JsonDumps(PairContent)
           /\ bucket[VersionedKey(1)][1].body # JsonDumps(PairContent)
    /\ status = S3_ENABLED =>
           LET h == History(bucket, CanonicalKey)
           IN  /\ Len(h) = 1 + Cardinality(PairPuts)
               /\ \A i \in 1..(Len(h) - 1) :
                      ~h[i].marker /\ h[i].body = JsonDumps(PairContent)
               /\ h[Len(h)].body # JsonDumps(PairContent)
    /\ PairDone =>
           /\ ReadNow.kind = "config"
           /\ SameContent(ReadNow.data, PairContent)

\* Without versioning both writers are done and each created a version of
\* its own, 2 and 3, with the same content; the pointer records 3.
C38_Witness ==
    /\ status = S3_NOT_ENABLED
    /\ PairDone
    /\ PairPuts = WriterPair
    /\ VersionNumbers = {1, 2, 3}
    /\ bucket[VersionedKey(2)][1].body = bucket[VersionedKey(3)][1].body
    /\ MetaGet(bucket[PointerKey][1].meta, CONFIG_VERSION) = <<"3">>

\* C39: delete_env_parameter. Called with include_s3 and without s3_client
\* or s3dir_config it raises ValueError and nothing has been deleted: the
\* SSM parameter and every S3 object are as before. Called without
\* include_s3 it deletes the SSM parameter and leaves every S3 object as it
\* was.
C39_DeleteEnvParameter ==
    [][(/\ Len(log') = Len(log) + 1
        /\ log'[Len(log')].op = "delete_env_parameter")
       => LET e == log'[Len(log')]
          IN  /\ (e.include_s3 /\ ~e.s3_given) =>
                     /\ e.res = ValueError
                     /\ ssm' = ssm
                     /\ bucket' = bucket
              /\ ~e.include_s3 =>
                     /\ e.res = NoneResult
                     /\ ssm' = NoParameter
                     /\ bucket' = bucket
      ]_vars

\* C40: round trip of the versioned keys, without versioning. The number
\* parsed from the end of the key built for version n is n; different
\* versions have different keys; no versioned key is the pointer key; and a
\* scan of the directory with the pointer in it collects the versions
\* written and nothing for the pointer.
C40_KeyCodec ==
    /\ \A i \in 1..Len(log) :
           /\ log[i].parsed = {log[i].n}
           /\ log[i].key # PointerKey
           /\ \A j \in 1..Len(log) :
                  log[i].n # log[j].n => log[i].key # log[j].key
    /\ Len(log) > 0 =>
           /\ PointerKey \in DOMAIN bucket
           /\ Last.scanned = {log[i].n : i \in 1..Len(log)}
           /\ DOMAIN bucket \ {PointerKey} = {log[i].key : i \in 1..Len(log)}

\* Versions 1, 100000 and 999999 are stored next to the pointer and the
\* scan collected exactly these three numbers.
C40_Witness ==
    /\ Len(log) = 3
    /\ {log[i].n : i \in 1..3} = {1, 100000, MaxVersionNumber}
    /\ Last.scanned = {1, 100000, MaxVersionNumber}
    /\ Cardinality(DOMAIN bucket) = 4
    /\ PointerKey \in DOMAIN bucket

====
